---------------------------- MODULE Spec2Model ----------------------------
(***************************************************************************)
(* Model of the firmware resource extractors of flame-ocean-website:       *)
(*   references/extract_font_universal.py  (V8 glyph decoder, 1-bpp BMP)   *)
(*   references/extract_resource_smart.py  (RGB565 BMP, shift detection)   *)
(* Pure functions are operators computed the way the code computes them;   *)
(* each component has its own specification whose Init draws the inputs    *)
(* of one call and whose action performs the call.                         *)
(***************************************************************************)
EXTENDS Integers, Sequences, FiniteSets, TLC

VARIABLES
    pc,                 \* "ready" before the call, "done" after it ("voting"
                        \* inside detect_offset_misalignment's voting loop)
    \* --- FontExtractor.decode_v8 ---
    chunk,              \* the cell handed to decode_v8 (sequence of bytes)
    lookup_val,         \* the lookup byte handed to decode_v8
    final_words,        \* final_pixel of every loop iteration, in order
    pixels,             \* the list decode_v8 returns
    \* --- convert_to_bmp ---
    raw_data,           \* raw RGB565 bytes
    width,
    height,
    bmp,                \* the returned bytes, or None
    \* --- FontExtractor.write_bmp ---
    grid,               \* the pixels argument (list of rows of bits)
    mono_file,          \* the bytes written to the file
    \* --- detect_offset_misalignment ---
    metadata_entries,   \* sequence of [offset |-> o]
    rock26_table,       \* offsets of the ROCK26 entries (rock26_count of them)
    rock26_idx,         \* the voting loop's index
    offset_shift_votes, \* the dict: [keys |-> insertion order, val |-> counts]
    misalignment,
    first_valid_entry,
    conclusion,         \* which branch wrote detection_info['conclusion']
    \* --- metadata table locator (head of extract_part5_bitmaps_smart) ---
    part5_data,         \* the Part 5 slice (sequence of bytes)
    rock26_offset,      \* part5_data.find(b'ROCK26IMAGERES'), -1 before the call too
    matching_positions, \* the positions the scan appended (as a set)
    table_start,        \* what find_metadata_table_in_part5 returned: <<>> for
                        \* None, <<p>> for the position p
    parsed_entries,     \* what parse_metadata_table_part5 returned
    \* --- FirmwareAnalyzer / FontExtractor / main of extract_font_universal.py ---
    firmware,           \* the image: [len |-> N, data |-> bytes at the addresses
                        \* that hold a non-zero byte, every other byte being 0]
    window_start,       \* the window handed to _score_window
    window_end,
    base_alignment,     \* <<>> for None, <<a>> for the alignment a
    window_score,       \* what _score_window returned: <<>> before the call,
                        \* then [score |-> .., first_addr |-> ..]
    search_start,       \* the partition searched, [search_start, search_end)
    search_end,
    current_stride,
    current_regions,    \* sequence of [start |-> .., end |-> ..]
    region_idx,         \* the region under scan (1-based; past the end when
                        \* the round's loops are done)
    region_results,     \* this round's windows, in scan order
    best_addr,          \* <<>> for None, <<a>> for the address a
    best_score,
    iteration,
    scored,             \* every window scored so far, all rounds, in order
    addresses,          \* detect_addresses' result without the confidence
    confidence,         \* _validate_addresses' result, <<>> before the call
    verify_only,        \* args.verify_only
    unicode_ranges,     \* FontExtractor.UNICODE_RANGES: <<name, start, end>>
    range_idx,          \* extract_all's position in the ranges (1-based)
    font_type,          \* "SMALL" or "LARGE": the extract_font_range call
    uni,                \* extract_font_range's loop variable
    range_calls,        \* the extract_font_range calls made, in order
    glyph_files,        \* the glyph BMPs written, in order
    \* --- the extraction loop of extract_part5_bitmaps_smart ---
    entry_idx,          \* the loop variable i
    written_files,      \* the files written, in order, with the locals they
                        \* were built from
    success_count,
    error_count,
    pass_result,        \* the dict returned, <<>> before the return
    \* --- the file writes of write_bmp and of extract_part5_bitmaps_smart ---
    writer,             \* "glyph": FontExtractor.write_bmp; "resource": the
                        \* write of extract_part5_bitmaps_smart
    write_queue,        \* the arguments of the f.write calls still to make
    file_buffer,        \* the bytes handed to f.write so far
    disk_file,          \* <<>> while the path does not exist, <<content>> after
    \* --- the batch drivers: extract_all_versions.py, main of extract_resource_smart.py ---
    driver,             \* "fonts": extract_all_versions.py; "bitmaps": main of
                        \* extract_resource_smart.py
    img_files,          \* the images to process, in order: [version, path]
    img_idx,            \* the images processed so far
    output_dirs,        \* [path, dir] of every image processed, in order
    \* --- the range catalogue, from the batch driver to FontExtractor ---
    ranges_args,        \* the --range arguments built so far: <<name, hex, hex>>
    cli_ranges,         \* main's unicode_ranges list
    extractor_ranges    \* FontExtractor's self.UNICODE_RANGES

vars == <<pc, chunk, lookup_val, final_words, pixels, raw_data, width, height,
          bmp, grid, mono_file, metadata_entries, rock26_table, rock26_idx,
          offset_shift_votes, misalignment, first_valid_entry, conclusion,
          part5_data, rock26_offset, matching_positions, table_start, parsed_entries,
          firmware, window_start, window_end, base_alignment, window_score, search_start, search_end, current_stride, current_regions, region_idx, region_results, best_addr, best_score, iteration, scored, addresses, confidence, verify_only, unicode_ranges, range_idx, font_type, uni, range_calls, glyph_files,
          entry_idx, written_files, success_count, error_count, pass_result,
          writer, write_queue, file_buffer, disk_file,
          driver, img_files, img_idx, output_dirs,
          ranges_args, cli_ranges, extractor_ranges>>
decodeVars == <<chunk, lookup_val, final_words, pixels>>
bmpVars    == <<raw_data, width, height, bmp>>
monoVars   == <<grid, mono_file>>
shiftVars  == <<metadata_entries, rock26_table, rock26_idx, offset_shift_votes,
                misalignment, first_valid_entry, conclusion>>
locateVars == <<part5_data, rock26_offset, matching_positions, table_start, parsed_entries>>
fontVars == <<firmware, window_start, window_end, base_alignment, window_score, search_start, search_end, current_stride, current_regions, region_idx, region_results, best_addr, best_score, iteration, scored, addresses, confidence, verify_only, unicode_ranges, range_idx, font_type, uni, range_calls, glyph_files>>
resVars == <<entry_idx, written_files, success_count, error_count, pass_result>>
outVars == <<writer, write_queue, file_buffer, disk_file>>
drvVars == <<driver, img_files, img_idx, output_dirs>>
catVars == <<ranges_args, cli_ranges, extractor_ranges>>

None == "None"

\* Components a specification does not exercise stay in these states.
DecodeIdle ==
    /\ chunk = <<>> /\ lookup_val = 0 /\ final_words = <<>> /\ pixels = <<>>
BmpIdle ==
    /\ raw_data = <<>> /\ width = 0 /\ height = 0 /\ bmp = None
MonoIdle ==
    /\ grid = <<>> /\ mono_file = <<>>
ShiftIdle ==
    /\ metadata_entries = <<>> /\ rock26_table = <<>> /\ rock26_idx = 0
    /\ offset_shift_votes = [keys |-> <<>>, val |-> <<>>]
    /\ misalignment = 0 /\ first_valid_entry = 0 /\ conclusion = None
LocateIdle ==
    /\ part5_data = <<>> /\ rock26_offset = -1 /\ matching_positions = {}
    /\ table_start = <<>> /\ parsed_entries = <<>>

FontIdle ==
    /\ firmware = [len |-> 0, data |-> <<>>]
    /\ window_start = 0 /\ window_end = 0 /\ base_alignment = <<>> /\ window_score = <<>>
    /\ search_start = 0 /\ search_end = 0 /\ current_stride = 0 /\ current_regions = <<>>
    /\ region_idx = 0 /\ region_results = <<>> /\ best_addr = <<>> /\ best_score = -1
    /\ iteration = 0 /\ scored = <<>>
    /\ addresses = <<>> /\ confidence = <<>> /\ verify_only = FALSE
    /\ unicode_ranges = <<>> /\ range_idx = 0 /\ font_type = None /\ uni = 0
    /\ range_calls = <<>> /\ glyph_files = <<>>

ResIdle ==
    /\ entry_idx = 0 /\ written_files = <<>> /\ success_count = 0 /\ error_count = 0
    /\ pass_result = <<>>

OutIdle ==
    /\ writer = None /\ write_queue = <<>> /\ file_buffer = <<>> /\ disk_file = <<>>

DrvIdle ==
    /\ driver = None /\ img_files = <<>> /\ img_idx = 0 /\ output_dirs = <<>>

CatIdle ==
    /\ ranges_args = <<>> /\ cli_ranges = <<>> /\ extractor_ranges = <<>>

\* The variables of every component but one, and the state they rest in.
exceptDecode == <<bmpVars, monoVars, shiftVars, locateVars, fontVars, resVars, outVars, drvVars, catVars>>
IdleExceptDecode == BmpIdle /\ MonoIdle /\ ShiftIdle /\ LocateIdle /\ FontIdle /\ ResIdle /\ OutIdle /\ DrvIdle /\ CatIdle
exceptBmp == <<decodeVars, monoVars, shiftVars, locateVars, fontVars, resVars, outVars, drvVars, catVars>>
IdleExceptBmp == DecodeIdle /\ MonoIdle /\ ShiftIdle /\ LocateIdle /\ FontIdle /\ ResIdle /\ OutIdle /\ DrvIdle /\ CatIdle
exceptMono == <<decodeVars, bmpVars, shiftVars, locateVars, fontVars, resVars, outVars, drvVars, catVars>>
IdleExceptMono == DecodeIdle /\ BmpIdle /\ ShiftIdle /\ LocateIdle /\ FontIdle /\ ResIdle /\ OutIdle /\ DrvIdle /\ CatIdle
exceptShift == <<decodeVars, bmpVars, monoVars, locateVars, fontVars, resVars, outVars, drvVars, catVars>>
IdleExceptShift == DecodeIdle /\ BmpIdle /\ MonoIdle /\ LocateIdle /\ FontIdle /\ ResIdle /\ OutIdle /\ DrvIdle /\ CatIdle
exceptLocate == <<decodeVars, bmpVars, monoVars, shiftVars, fontVars, resVars, outVars, drvVars, catVars>>
IdleExceptLocate == DecodeIdle /\ BmpIdle /\ MonoIdle /\ ShiftIdle /\ FontIdle /\ ResIdle /\ OutIdle /\ DrvIdle /\ CatIdle
exceptFont == <<decodeVars, bmpVars, monoVars, shiftVars, locateVars, resVars, outVars, drvVars, catVars>>
IdleExceptFont == DecodeIdle /\ BmpIdle /\ MonoIdle /\ ShiftIdle /\ LocateIdle /\ ResIdle /\ OutIdle /\ DrvIdle /\ CatIdle
exceptRes == <<decodeVars, bmpVars, monoVars, shiftVars, locateVars, fontVars, outVars, drvVars, catVars>>
IdleExceptRes == DecodeIdle /\ BmpIdle /\ MonoIdle /\ ShiftIdle /\ LocateIdle /\ FontIdle /\ OutIdle /\ DrvIdle /\ CatIdle
exceptOut == <<decodeVars, bmpVars, monoVars, shiftVars, locateVars, fontVars, resVars, drvVars, catVars>>
IdleExceptOut == DecodeIdle /\ BmpIdle /\ MonoIdle /\ ShiftIdle /\ LocateIdle /\ FontIdle /\ ResIdle /\ DrvIdle /\ CatIdle
exceptDrv == <<decodeVars, bmpVars, monoVars, shiftVars, locateVars, fontVars, resVars, outVars, catVars>>
IdleExceptDrv == DecodeIdle /\ BmpIdle /\ MonoIdle /\ ShiftIdle /\ LocateIdle /\ FontIdle /\ ResIdle /\ OutIdle /\ CatIdle
exceptCat == <<decodeVars, bmpVars, monoVars, shiftVars, locateVars, fontVars, resVars, outVars, drvVars>>
IdleExceptCat == DecodeIdle /\ BmpIdle /\ MonoIdle /\ ShiftIdle /\ LocateIdle /\ FontIdle /\ ResIdle /\ OutIdle /\ DrvIdle

Min(a, b) == IF a < b THEN a ELSE b
Max(a, b) == IF a > b THEN a ELSE b

\* 1 << n for n in 0..15
Pow2(n) == <<1, 2, 4, 8, 16, 32, 64, 128, 256, 512, 1024, 2048, 4096, 8192, 16384, 32768>>[n + 1]

(***************************************************************************)
(* V8 font decoder: FontExtractor.decode_v8                                *)
(***************************************************************************)
SMALL_STRIDE == 32
LARGE_STRIDE == 33

\* ((v & 0xFF) << 8) | ((v >> 8) & 0xFF)
bswap16(v) == (v % 256) * 256 + ((v \div 256) % 256)

sw_mcu_bits(lookup)      == ((lookup % 256) \div 8) % 2
sw_mcu_hw_swap(lookup)   == ((lookup % 256) \div 16) % 2
sw_mcu_byte_swap(lookup) == ((lookup % 256) \div 32) % 2

\* Mutant: with bits=0 the cycles always start as (b1, b0).
pre_pixel_fixed_cycles(b0, b1, lookup) ==
    IF sw_mcu_bits(lookup) = 1
    THEN LET val == b1 * 256 + b0
         IN  IF sw_mcu_byte_swap(lookup) = 1 THEN bswap16(val) ELSE val
    ELSE LET c0 == <<b1, b0>>
             c1 == IF sw_mcu_byte_swap(lookup) = 1 THEN <<c0[2], c0[1]>> ELSE c0
             c2 == IF sw_mcu_hw_swap(lookup) = 1 THEN <<c1[2], c1[1]>> ELSE c1
         IN  c2[2] + c2[1] * 256

\* final_pixel before the closing conditional swap (the if/else on sw_mcu_bits)
pre_pixel(b0, b1, lookup) ==
    IF sw_mcu_bits(lookup) = 1
    THEN LET val == b1 * 256 + b0
         IN  IF sw_mcu_byte_swap(lookup) = 1 THEN bswap16(val) ELSE val
    ELSE LET c0 == IF sw_mcu_hw_swap(lookup) = sw_mcu_byte_swap(lookup)
                   THEN <<b1, b0>> ELSE <<b0, b1>>
             c1 == IF sw_mcu_byte_swap(lookup) = 1 THEN <<c0[2], c0[1]>> ELSE c0
             c2 == IF sw_mcu_hw_swap(lookup) = 1 THEN <<c1[2], c1[1]>> ELSE c1
         IN  c2[2] + c2[1] * 256

\* Mutant: the closing swap is applied unconditionally.
final_pixel_always_swap(b0, b1, lookup) == bswap16(pre_pixel(b0, b1, lookup))

\* final_pixel as it stands when row_bits is taken
final_pixel(b0, b1, lookup) ==
    IF ~(sw_mcu_bits(lookup) = 1 /\ sw_mcu_byte_swap(lookup) = 1)
    THEN bswap16(pre_pixel(b0, b1, lookup))
    ELSE pre_pixel(b0, b1, lookup)

\* [(final_pixel >> bit) & 1 for bit in range(15, 0, -1)]
row_bits(fp) == [k \in 1..15 |-> (fp \div Pow2(16 - k)) % 2]

\* Mutant: the loop has no "i + 1 >= len(chunk)" break and reads a missing
\* second byte as 0.
RECURSIVE decode_words_nobreak(_, _, _)
decode_words_nobreak(ch, lookup, i) ==
    IF i >= Len(ch) THEN <<>>
    ELSE <<final_pixel(ch[i + 1], IF i + 1 >= Len(ch) THEN 0 ELSE ch[i + 2], lookup)>>
         \o decode_words_nobreak(ch, lookup, i + 2)

\* The loop "for i in range(0, len(chunk), 2)" from index i on: the final_pixel
\* of every iteration that reaches row_bits (i is the 0-based Python index).
RECURSIVE decode_words(_, _, _)
decode_words(ch, lookup, i) ==
    IF i >= Len(ch) THEN <<>>
    ELSE IF i + 1 >= Len(ch) THEN <<>>
    ELSE <<final_pixel(ch[i + 1], ch[i + 2], lookup)>>
         \o decode_words(ch, lookup, i + 2)

decode_v8(ch, lookup) ==
    LET ws == decode_words(ch, lookup, 0)
    IN  [k \in 1..Len(ws) |-> row_bits(ws[k])]

\* Cells the decoder is run on: byte pair k (0-based) is (b0 + 2k, b1 + 2k)
\* mod 256, so Cell(0, 1, 32) is the corpus chunk 0,1,...,31.
ByteSamples == {0, 1, 90, 128, 255}
Cell(b0, b1, n) ==
    [i \in 1..n |-> ((IF (i - 1) % 2 = 0 THEN b0 ELSE b1) + 2 * ((i - 1) \div 2)) % 256]

DecodeInit ==
    /\ pc = "ready"
    /\ \E b0 \in ByteSamples, b1 \in ByteSamples, n \in {SMALL_STRIDE, LARGE_STRIDE} :
           chunk = Cell(b0, b1, n)
    /\ lookup_val \in 0..255
    /\ final_words = <<>> /\ pixels = <<>>
    /\ IdleExceptDecode

DecodeV8 ==
    /\ pc = "ready"
    /\ pc' = "done"
    /\ final_words' = decode_words(chunk, lookup_val, 0)
    /\ pixels' = decode_v8(chunk, lookup_val)
    /\ UNCHANGED <<chunk, lookup_val, exceptDecode>>

DecodeNext == DecodeV8
SpecDecode == DecodeInit /\ [][DecodeNext]_vars

C2_AsStated ==
    (pc = "done" /\ sw_mcu_bits(lookup_val) = 1) =>
        \A k \in 1..Len(final_words) :
            final_words[k] =
                IF sw_mcu_byte_swap(lookup_val) = 1
                THEN chunk[2 * k] * 256 + chunk[2 * k - 1]
                ELSE chunk[2 * k - 1] * 256 + chunk[2 * k]

\* C2 amended: with bits=1 the final word of every byte pair is (b0<<8)|b1,
\* with byte_swap=1 as with byte_swap=0.
C2_FinalWordBits1 ==
    (pc = "done" /\ sw_mcu_bits(lookup_val) = 1) =>
        /\ Len(final_words) = 16
        /\ \A k \in 1..Len(final_words) :
               final_words[k] = chunk[2 * k - 1] * 256 + chunk[2 * k]

\* A cell with b0 # b1 has been decoded under bits=1, byte_swap=1.
C2_Witness ==
    /\ pc = "done"
    /\ sw_mcu_bits(lookup_val) = 1 /\ sw_mcu_byte_swap(lookup_val) = 1
    /\ Len(final_words) = 16
    /\ chunk[1] # chunk[2]

\* C27: the decoded pixels do not depend on the lookup byte: the run with any
\* lookup value yields the pixels of the run with lookup 0 on the same chunk,
\* and in every flag combination each final word is (b0 << 8) | b1.
C27_LookupIndependent ==
    pc = "done" =>
        /\ pixels = decode_v8(chunk, 0)
        /\ \A k \in 1..Len(final_words) :
               final_words[k] = chunk[2 * k - 1] * 256 + chunk[2 * k]

C27_Witness ==
    /\ pc = "done"
    /\ sw_mcu_bits(lookup_val) = 0
    /\ sw_mcu_hw_swap(lookup_val) = 1
    /\ sw_mcu_byte_swap(lookup_val) = 0
    /\ chunk[1] # chunk[2]
    /\ Len(final_words) = 16
    /\ final_words[1] = chunk[1] * 256 + chunk[2]

(***************************************************************************)
(* RGB565 -> BMP transcoder: extract_resource_smart.py convert_to_bmp      *)
(***************************************************************************)
\* struct.pack('<H', v), struct.pack('<I', v) and struct.pack('<i', v): the
\* little-endian bytes of v, a negative '<i' value in two's complement.
pack_H(v) == <<v % 256, (v \div 256) % 256>>
pack_I(v) == <<v % 256, (v \div 256) % 256, (v \div 65536) % 256, (v \div 16777216) % 256>>
pack_i(v) ==
    IF v >= 0 THEN pack_I(v)
    ELSE LET m == pack_I(-v - 1) IN [k \in 1..4 |-> 255 - m[k]]

\* struct.unpack('<I', b[off:off+4]) with off the 0-based offset
unpack_I(b, off) ==
    b[off + 1] + 256 * b[off + 2] + 65536 * b[off + 3] + 16777216 * b[off + 4]

\* b'\x00' * n (empty for n <= 0)
Zeros(n) == [i \in 1..n |-> 0]

\* data[a:b] of a Python bytes object, 0 <= a
Slice(data, a, b) ==
    LET hi == Min(b, Len(data))
    IN  IF hi <= a THEN <<>> ELSE [i \in 1..(hi - a) |-> data[a + i]]

\* Mutant: the byte pairs are left in their input order.
swap_bytes_16bit_noswap(data) ==
    IF Len(data) % 2 # 0 THEN Slice(data, 0, Len(data) - 1) ELSE data

swap_bytes_16bit(data) ==
    LET arr == IF Len(data) % 2 # 0 THEN Slice(data, 0, Len(data) - 1) ELSE data
    IN  [i \in 1..Len(arr) |-> IF i % 2 = 1 THEN arr[i + 1] ELSE arr[i - 1]]

\* (src_stride, dst_stride, padding); x & ~3 clears the two low bits
get_stride_info(w) ==
    LET src_stride == w * 2
        dst_stride == (src_stride + 3) - ((src_stride + 3) % 4)
    IN  [src |-> src_stride, dst |-> dst_stride, padding |-> dst_stride - src_stride]

RECURSIVE restride_rows(_, _, _, _, _)
restride_rows(raw, src_stride, padding, y, h) ==
    IF y >= h THEN <<>>
    ELSE Slice(raw, y * src_stride, y * src_stride + src_stride)
         \o (IF padding > 0 THEN Zeros(padding) ELSE <<>>)
         \o restride_rows(raw, src_stride, padding, y + 1, h)

\* Mutant: the rows are copied without their padding bytes.
restride_to_bmp_nopad(raw, w, h) ==
    LET si == get_stride_info(w)
        expected_len == si.src * h
        padded == IF Len(raw) < expected_len
                  THEN raw \o Zeros(expected_len - Len(raw)) ELSE raw
    IN  restride_rows(padded, si.src, 0, 0, h)

restride_to_bmp(raw, w, h) ==
    LET si == get_stride_info(w)
        expected_len == si.src * h
        padded == IF Len(raw) < expected_len
                  THEN raw \o Zeros(expected_len - Len(raw)) ELSE raw
    IN  IF si.padding = 0 /\ Len(raw) = si.src * h
        THEN raw
        ELSE restride_rows(padded, si.src, si.padding, 0, h)

create_bmp_header(w, h) ==
    LET si == get_stride_info(w)
        image_size == si.dst * h
        headers_size == 14 + 40 + 12
        file_size == headers_size + image_size
    IN  <<66, 77>>                      \* b'BM'
        \o pack_I(file_size)
        \o <<0, 0, 0, 0>>
        \o pack_I(headers_size)
        \o pack_I(40)
        \o pack_i(w)
        \o pack_i(-h)
        \o pack_H(1)
        \o pack_H(16)
        \o pack_I(3)
        \o pack_I(image_size)
        \o pack_i(2835)
        \o pack_i(2835)
        \o pack_I(0)
        \o pack_I(0)
        \o pack_I(63488)                \* 0xF800
        \o pack_I(2016)                 \* 0x07E0
        \o pack_I(31)                   \* 0x001F

\* Mutant: only negative dimensions are rejected.
convert_to_bmp_accepts_zero(raw, w, h) ==
    IF w < 0 \/ h < 0 THEN None
    ELSE LET expected_size == w * h * 2
             padded == IF Len(raw) < expected_size
                       THEN raw \o Zeros(expected_size - Len(raw)) ELSE raw
             swapped == swap_bytes_16bit(Slice(padded, 0, expected_size))
         IN  create_bmp_header(w, h) \o restride_to_bmp(swapped, w, h)

convert_to_bmp(raw, w, h) ==
    IF w <= 0 \/ h <= 0 THEN None
    ELSE LET expected_size == w * h * 2
             padded == IF Len(raw) < expected_size
                       THEN raw \o Zeros(expected_size - Len(raw)) ELSE raw
             swapped == swap_bytes_16bit(Slice(padded, 0, expected_size))
         IN  create_bmp_header(w, h) \o restride_to_bmp(swapped, w, h)

\* Inputs of the transcoder: dimensions -1..MaxDim, and raw buffers of
\* 0..MaxRaw bytes seed, seed+step, seed+2*step, ... (mod 256), plus the
\* 2x2 buffer of the test corpus.
MaxDim == 3
MaxRaw == 20
RawSeeds == {0, 18, 255}
RawSteps == {0, 1, 37}
RawOf(seed, step, n) == [i \in 1..n |-> (seed + step * (i - 1)) % 256]
CorpusRaw2x2 == <<255, 0, 0, 7, 224, 7, 255, 248>>
RawBuffers ==
    {RawOf(seed, step, n) : seed \in RawSeeds, step \in RawSteps, n \in 0..MaxRaw}
    \cup {CorpusRaw2x2}

BmpInit ==
    /\ pc = "ready"
    /\ raw_data \in RawBuffers
    /\ width \in -1..MaxDim
    /\ height \in -1..MaxDim
    /\ bmp = <<>>
    /\ IdleExceptBmp

ConvertToBmp ==
    /\ pc = "ready"
    /\ pc' = "done"
    /\ bmp' = convert_to_bmp(raw_data, width, height)
    /\ UNCHANGED <<raw_data, width, height, exceptBmp>>

BmpNext == ConvertToBmp
SpecBmp == BmpInit /\ [][BmpNext]_vars

\* ((2W+3) & ~3), the destination stride the claims speak of
DstStride(w) == ((2 * w + 3) \div 4) * 4

\* raw[k] (0-based), a missing byte counting as 0x00
RawAt(k) == IF k < Len(raw_data) THEN raw_data[k + 1] ELSE 0

C4_PixelAreaSwappedRestrided ==
    (pc = "done" /\ width > 0 /\ height > 0) =>
        /\ bmp # None
        /\ Len(bmp) = 66 + DstStride(width) * height
        /\ \A y \in 0..(height - 1) :
               /\ \A x \in 0..(width - 1) :
                      /\ bmp[66 + y * DstStride(width) + 2 * x + 1]
                            = RawAt(2 * (y * width + x) + 1)
                      /\ bmp[66 + y * DstStride(width) + 2 * x + 2]
                            = RawAt(2 * (y * width + x))
               /\ \A p \in (2 * width)..(DstStride(width) - 1) :
                      bmp[66 + y * DstStride(width) + p + 1] = 0

\* The corpus 2x2 buffer has been converted: its first pixel FF 00 comes out 00 FF.
C4_Witness ==
    /\ pc = "done" /\ raw_data = CorpusRaw2x2 /\ width = 2 /\ height = 2
    /\ bmp # None /\ bmp[67] = 0 /\ bmp[68] = 255

GLYPH_WIDTH  == 15
GLYPH_HEIGHT == 16

\* The 54 header bytes and the two palette entries written before the rows.
mono_header(w, h) ==
    LET bfOffBits == 62
        biSizeImage == ((w + 31) \div 32) * 4 * h
        file_size == bfOffBits + biSizeImage
    IN  pack_H(19778)                   \* bfType 0x4D42
        \o pack_I(file_size)
        \o pack_H(0)
        \o pack_H(0)
        \o pack_I(bfOffBits)
        \o pack_I(40)
        \o pack_i(w)
        \o pack_i(h)
        \o pack_H(1)
        \o pack_H(1)
        \o pack_I(0)
        \o pack_I(biSizeImage)
        \o pack_i(2835)
        \o pack_i(2835)
        \o pack_I(2)
        \o pack_I(2)
        \o <<255, 255, 255, 0>>         \* 0xFFFFFF as B, G, R, 0
        \o <<0, 0, 0, 0>>               \* 0x000000

\* pixels[y][x] if y < len(pixels) and x < len(pixels[y]) else 0
pixel_bit(pix, x, y) ==
    IF y < Len(pix) /\ x < Len(pix[y + 1]) THEN pix[y + 1][x + 1] ELSE 0

\* The loop "for x in range(width)" of one row from column x on, then the
\* flush of a partial byte; st = [row_data, current_byte, bit_count].
RECURSIVE mono_row_loop(_, _, _, _, _)
mono_row_loop(pix, y, x, w, st) ==
    IF x >= w
    THEN IF st.bit_count > 0
         THEN Append(st.row_data, st.current_byte * Pow2(8 - st.bit_count))
         ELSE st.row_data
    ELSE LET cb == st.current_byte * 2 + pixel_bit(pix, x, y)
             bc == st.bit_count + 1
         IN  IF bc = 8
             THEN mono_row_loop(pix, y, x + 1, w,
                      [row_data |-> Append(st.row_data, cb), current_byte |-> 0, bit_count |-> 0])
             ELSE mono_row_loop(pix, y, x + 1, w,
                      [row_data |-> st.row_data, current_byte |-> cb, bit_count |-> bc])

\* One row as written: the packed bits, then zeros up to row_bytes.
mono_row(pix, y, w) ==
    LET row_bytes == ((w + 31) \div 32) * 4
        packed == mono_row_loop(pix, y, 0, w,
                      [row_data |-> <<>>, current_byte |-> 0, bit_count |-> 0])
    IN  packed \o Zeros(row_bytes - Len(packed))

\* Mutant: the rows are written top-down, y from 0 to height - 1.
RECURSIVE mono_rows_topdown(_, _, _, _)
mono_rows_topdown(pix, y, w, h) ==
    IF y < 0 THEN <<>>
    ELSE mono_row(pix, (h - 1) - y, w) \o mono_rows_topdown(pix, y - 1, w, h)

\* "for y in range(height - 1, -1, -1)" from row y down to row 0
RECURSIVE mono_rows(_, _, _, _)
mono_rows(pix, y, w, h) ==
    IF y < 0 THEN <<>>
    ELSE mono_row(pix, y, w) \o mono_rows(pix, y - 1, w, h)

\* Everything write_bmp writes to the file, in order.
write_bmp(pix, w, h) == mono_header(w, h) \o mono_rows(pix, h - 1, w, h)

\* Grids handed to the writer: a bit pattern laid out on nrows rows, row y
\* (0-based) holding ncols bits ("rect") or ncols - y bits ("ragged").
\* Patterns: one set pixel, all white, checkerboard, first column (the last
\* three are the patterns of the test corpus).
GridPatterns ==
    {<<"single", x0, y0>> : x0 \in 0..(GLYPH_WIDTH - 1), y0 \in 0..(GLYPH_HEIGHT - 1)}
    \cup {<<"white", 0, 0>>, <<"checker", 0, 0>>, <<"column", 0, 0>>}
PatternBit(pat, x, y) ==
    CASE pat[1] = "single"  -> IF x = pat[2] /\ y = pat[3] THEN 1 ELSE 0
      [] pat[1] = "white"   -> 1
      [] pat[1] = "checker" -> (x + y) % 2
      [] pat[1] = "column"  -> IF x = 0 THEN 1 ELSE 0
GridRowCounts == {0, 9, GLYPH_HEIGHT, GLYPH_HEIGHT + 1}
GridColCounts == {0, 7, GLYPH_WIDTH, GLYPH_WIDTH + 1}
GridOf(pat, shape, nrows, ncols) ==
    [y \in 1..nrows |->
        [x \in 1..(IF shape = "ragged" THEN Max(0, ncols - (y - 1)) ELSE ncols) |->
            PatternBit(pat, x - 1, y - 1)]]

MonoInit ==
    /\ pc = "ready"
    /\ \E pat \in GridPatterns, shape \in {"rect", "ragged"},
          nrows \in GridRowCounts, ncols \in GridColCounts :
           grid = GridOf(pat, shape, nrows, ncols)
    /\ mono_file = <<>>
    /\ IdleExceptMono

WriteBmp ==
    /\ pc = "ready"
    /\ pc' = "done"
    /\ mono_file' = write_bmp(grid, GLYPH_WIDTH, GLYPH_HEIGHT)
    /\ UNCHANGED <<grid, exceptMono>>

MonoNext == WriteBmp
SpecMono == MonoInit /\ [][MonoNext]_vars

\* Input bit (x, y) of the grid, a missing pixel counting as 0
GridBit(x, y) ==
    IF y + 1 <= Len(grid) THEN (IF x + 1 <= Len(grid[y + 1]) THEN grid[y + 1][x + 1] ELSE 0)
    ELSE 0

\* Bit position p (7 = most significant) of output byte k (0-based offset)
FileBit(k, p) == (mono_file[k + 1] \div Pow2(p)) % 2

\* C6: for any grid, missing or short rows included, the writer emits exactly
\* 126 bytes; input bit (x,y), 0<=x<15, 0<=y<16, is at byte 62 + (15-y)*4 +
\* x div 8, bit 7 - (x mod 8); bit 0 of each row's second byte and the row's
\* bytes 2 and 3 are 0.
C6_MonoLayout ==
    pc = "done" =>
        /\ Len(mono_file) = 126
        /\ \A y \in 0..15 :
               /\ \A x \in 0..14 :
                      FileBit(62 + (15 - y) * 4 + (x \div 8), 7 - (x % 8)) = GridBit(x, y)
               /\ FileBit(62 + (15 - y) * 4 + 1, 0) = 0
               /\ mono_file[62 + (15 - y) * 4 + 2 + 1] = 0
               /\ mono_file[62 + (15 - y) * 4 + 3 + 1] = 0

\* A grid with missing rows and short rows, pixel (8, 3) set, has been
\* written: the pixel is the top bit of the second byte of output row 12.
C6_Witness ==
    /\ pc = "done"
    /\ Len(grid) = 9 /\ Len(grid[4]) = 12
    /\ grid[4][9] = 1
    /\ mono_file[62 + 12 * 4 + 1 + 1] = 128

(***************************************************************************)
(* Shift detection: extract_resource_smart.py detect_offset_misalignment   *)
(***************************************************************************)
SAMPLE_LIMIT == 20      \* min(20, rock26_count)
MAX_SHIFT == 3          \* range(-3, 4)

\* A Python dict of int -> int: keys in insertion order, val[k] the value
\* stored under keys[k].
EmptyDict == [keys |-> <<>>, val |-> <<>>]
DictHas(d, key) == \E k \in 1..Len(d.keys) : d.keys[k] = key
DictPos(d, key) == CHOOSE k \in 1..Len(d.keys) : d.keys[k] = key
DictGet(d, key, default) == IF DictHas(d, key) THEN d.val[DictPos(d, key)] ELSE default

\* d[key] = d.get(key, 0) + 1
DictIncr(d, key) ==
    IF DictHas(d, key)
    THEN [keys |-> d.keys, val |-> [d.val EXCEPT ![DictPos(d, key)] = @ + 1]]
    ELSE [keys |-> Append(d.keys, key), val |-> Append(d.val, 1)]

\* Mutant: among equal maxima the last item of the dict wins.
max_by_value_last(d) ==
    LET best == CHOOSE k \in 1..Len(d.keys) :
                    /\ \A j \in 1..Len(d.keys) : d.val[j] <= d.val[k]
                    /\ \A j \in (k + 1)..Len(d.keys) : d.val[j] < d.val[k]
    IN  <<d.keys[best], d.val[best]>>

\* max(d.items(), key=lambda x: x[1]): the first item, in iteration order,
\* whose value is the largest.
max_by_value(d) ==
    LET best == CHOOSE k \in 1..Len(d.keys) :
                    /\ \A j \in 1..Len(d.keys) : d.val[j] <= d.val[k]
                    /\ \A j \in 1..(k - 1) : d.val[j] < d.val[k]
    IN  <<d.keys[best], d.val[best]>>

\* rock26_offsets: the first min(20, rock26_count) offsets of the table
sample_offsets(table) == SubSeq(table, 1, Min(SAMPLE_LIMIT, Len(table)))

\* Mutant: the last metadata entry is never compared.
vote_hit_excludes_last(meta, offs, idx, shift) ==
    LET metadata_idx == idx + shift
    IN  /\ 0 <= metadata_idx /\ metadata_idx < Len(meta) - 1
        /\ meta[metadata_idx + 1].offset = offs[idx + 1]

\* if 0 <= metadata_idx < len(metadata_entries) and the offsets are equal
vote_hit(meta, offs, idx, shift) ==
    LET metadata_idx == idx + shift
    IN  /\ 0 <= metadata_idx /\ metadata_idx < Len(meta)
        /\ meta[metadata_idx + 1].offset = offs[idx + 1]

\* Mutant: shift +3 is never tried (range(-3, 3)).
RECURSIVE vote_shifts_short_range(_, _, _, _, _)
vote_shifts_short_range(meta, offs, idx, shift, votes) ==
    IF shift > MAX_SHIFT - 1 THEN votes
    ELSE vote_shifts_short_range(meta, offs, idx, shift + 1,
             IF vote_hit(meta, offs, idx, shift) THEN DictIncr(votes, shift) ELSE votes)

\* The inner loop "for shift in range(-3, 4)" from shift on.
RECURSIVE vote_shifts(_, _, _, _, _)
vote_shifts(meta, offs, idx, shift, votes) ==
    IF shift > MAX_SHIFT THEN votes
    ELSE vote_shifts(meta, offs, idx, shift + 1,
             IF vote_hit(meta, offs, idx, shift) THEN DictIncr(votes, shift) ELSE votes)

\* Mutant: the general branch computes max(1, -best_shift).
stat_decision_neg_off_by_one(best_shift) ==
    IF best_shift = 1
    THEN [misalignment |-> 1, first_valid_entry |-> 1, conclusion |-> "Detected +1"]
    ELSE IF best_shift = 0
    THEN [misalignment |-> 0, first_valid_entry |-> 0, conclusion |-> "No misalignment"]
    ELSE [misalignment |-> best_shift, first_valid_entry |-> Max(1, -best_shift),
          conclusion |-> "Detected shift"]

\* Mutant: the general branch computes max(1, best_shift - 1).
stat_decision_sign_slip(best_shift) ==
    IF best_shift = 1
    THEN [misalignment |-> 1, first_valid_entry |-> 1, conclusion |-> "Detected +1"]
    ELSE IF best_shift = 0
    THEN [misalignment |-> 0, first_valid_entry |-> 0, conclusion |-> "No misalignment"]
    ELSE [misalignment |-> best_shift, first_valid_entry |-> Max(1, best_shift - 1),
          conclusion |-> "Detected shift"]

\* The if / elif / else on best_shift of the statistical branch.
stat_decision(best_shift) ==
    IF best_shift = 1
    THEN [misalignment |-> 1, first_valid_entry |-> 1, conclusion |-> "Detected +1"]
    ELSE IF best_shift = 0
    THEN [misalignment |-> 0, first_valid_entry |-> 0, conclusion |-> "No misalignment"]
    ELSE [misalignment |-> best_shift, first_valid_entry |-> Max(1, 1 - best_shift),
          conclusion |-> "Detected shift"]

\* Mutant: the fallback returns the matching index itself as the shift.
fallback_decision_no_minus_one(meta, offs) ==
    IF Len(offs) > 0
    THEN LET matches == {i \in 0..(Len(meta) - 1) : meta[i + 1].offset = offs[1]}
         IN  IF matches # {}
             THEN LET first_match_index == CHOOSE i \in matches : \A j \in matches : i <= j
                  IN  [misalignment |-> first_match_index, first_valid_entry |-> 1,
                       conclusion |-> "Fallback detection result"]
             ELSE [misalignment |-> 0, first_valid_entry |-> 0,
                   conclusion |-> "Statistical analysis failed"]
    ELSE [misalignment |-> 0, first_valid_entry |-> 0,
          conclusion |-> "Statistical analysis failed"]

\* The else branch: single-point detection on rock26_offsets[0]. The for /
\* break loop stops at the first entry whose offset matches.
fallback_decision(meta, offs) ==
    IF Len(offs) > 0
    THEN LET matches == {i \in 0..(Len(meta) - 1) : meta[i + 1].offset = offs[1]}
         IN  IF matches # {}
             THEN LET first_match_index == CHOOSE i \in matches : \A j \in matches : i <= j
                  IN  [misalignment |-> first_match_index - 1, first_valid_entry |-> 1,
                       conclusion |-> "Fallback detection result"]
             ELSE [misalignment |-> 0, first_valid_entry |-> 0,
                   conclusion |-> "Statistical analysis failed"]
    ELSE [misalignment |-> 0, first_valid_entry |-> 0,
          conclusion |-> "Statistical analysis failed"]

\* "if offset_shift_votes: ... else: ..." once the voting loop has ended.
decide(meta, offs, votes) ==
    IF Len(votes.keys) > 0
    THEN stat_decision(max_by_value(votes)[1])
    ELSE fallback_decision(meta, offs)

\* Tables the detection is run on.  Short tables: every sequence of up to
\* MaxMeta metadata offsets and up to MaxRock ROCK26 offsets over OffsetVals.
\* Long tables: a pattern of up to LongPat offsets repeated to a length around
\* SAMPLE_LIMIT, so that the 20-entry sample is a proper prefix.  Corpus: the
\* two scenarios of generate_misalignment_test_data, and its ROCK26 table
\* against metadata with k extra leading entries (all zero, or pairwise
\* distinct) or k leading entries missing.
MaxMeta == 5
MaxRock == 2
LongPat == 2
OffsetVals == {0, 4096, 4352}
SeqsUpTo(S, n) == UNION {[1..k -> S] : k \in 0..n}
Repeat(pat, n) == [i \in 1..n |-> pat[((i - 1) % Len(pat)) + 1]]
Entries(offs) == [i \in 1..Len(offs) |-> [offset |-> offs[i]]]
LongPatterns == SeqsUpTo(OffsetVals, LongPat) \ {<<>>}
LongMetaLens == {SAMPLE_LIMIT - 2, SAMPLE_LIMIT + 4}
LongRockLens == {SAMPLE_LIMIT, SAMPLE_LIMIT + 1, SAMPLE_LIMIT + 3}
CorpusRock == <<4096, 4352, 4608, 4864, 5120>>
CorpusMetaShifted == <<0, 4096, 4352, 4608, 4864, 5120>>
CorpusMetaAligned == <<4096, 4352, 4608>>
\* k extra leading entries with offsets of their own (256, 512, ...)
LeadOffsets(k) == [i \in 1..k |-> 256 * i]
ShiftInputs ==
    {<<m, r>> : m \in SeqsUpTo(OffsetVals, MaxMeta), r \in SeqsUpTo(OffsetVals, MaxRock)}
    \cup {<<Repeat(pm, nm), Repeat(pr, nr)>> :
              pm \in LongPatterns, nm \in LongMetaLens,
              pr \in LongPatterns, nr \in LongRockLens}
    \cup {<<CorpusMetaShifted, CorpusRock>>, <<CorpusMetaAligned, SubSeq(CorpusRock, 1, 3)>>}
    \cup {<<Zeros(k) \o CorpusRock, CorpusRock>> : k \in 0..(MAX_SHIFT + 1)}
    \cup {<<SubSeq(CorpusRock, k + 1, Len(CorpusRock)), CorpusRock>> : k \in 1..(MAX_SHIFT + 1)}
    \cup {<<LeadOffsets(k) \o CorpusRock, CorpusRock>> : k \in 0..(MAX_SHIFT + 1)}

\* The state at the head of the voting loop: the tables are read, the dict
\* is empty.
ShiftInit ==
    /\ pc = "voting"
    /\ \E inp \in ShiftInputs :
           /\ metadata_entries = Entries(inp[1])
           /\ rock26_table = inp[2]
    /\ rock26_idx = 0
    /\ offset_shift_votes = EmptyDict
    /\ misalignment = 0 /\ first_valid_entry = 0 /\ conclusion = None
    /\ IdleExceptShift

\* One iteration of "for rock26_idx in range(min(20, len(rock26_offsets)))".
VoteIteration ==
    /\ pc = "voting"
    /\ rock26_idx < Min(SAMPLE_LIMIT, Len(sample_offsets(rock26_table)))
    /\ offset_shift_votes' = vote_shifts(metadata_entries, sample_offsets(rock26_table),
                                         rock26_idx, -MAX_SHIFT, offset_shift_votes)
    /\ rock26_idx' = rock26_idx + 1
    /\ UNCHANGED <<pc, metadata_entries, rock26_table, misalignment, first_valid_entry,
                   conclusion, exceptShift>>

\* The loop has ended: the decision is taken and returned.
Decide ==
    /\ pc = "voting"
    /\ rock26_idx >= Min(SAMPLE_LIMIT, Len(sample_offsets(rock26_table)))
    /\ pc' = "done"
    /\ LET dec == decide(metadata_entries, sample_offsets(rock26_table), offset_shift_votes)
       IN  /\ misalignment' = dec.misalignment
           /\ first_valid_entry' = dec.first_valid_entry
           /\ conclusion' = dec.conclusion
    /\ UNCHANGED <<metadata_entries, rock26_table, rock26_idx, offset_shift_votes,
                   exceptShift>>

ShiftNext == VoteIteration \/ Decide
SpecShift == ShiftInit /\ [][ShiftNext]_vars

\* What the claims about the detection speak of, stated on the inputs alone.
Shifts == -3..3
VoteSet(s) ==
    {i \in 0..(Min(20, Len(rock26_table)) - 1) :
        /\ 0 <= i + s /\ i + s < Len(metadata_entries)
        /\ metadata_entries[i + s + 1].offset = rock26_table[i + 1]}
VoteCount(s) == Cardinality(VoteSet(s))
AnyVote == \E s \in Shifts : VoteCount(s) > 0
HasMaxVotes(s) == s \in Shifts /\ \A t \in Shifts : VoteCount(t) <= VoteCount(s)
FirstVote(s) == CHOOSE i \in VoteSet(s) : \A j \in VoteSet(s) : i <= j
VotesAsClaimed ==
    /\ \A k \in 1..Len(offset_shift_votes.keys) : offset_shift_votes.keys[k] \in Shifts
    /\ \A s \in Shifts :
           /\ DictHas(offset_shift_votes, s) <=> VoteCount(s) > 0
           /\ DictGet(offset_shift_votes, s, 0) = VoteCount(s)

\* C7 as stated: bucket s gets one vote per sampled i with metadata[i+s].offset
\* = R[i]; the chosen shift has the maximum vote count and, among shifts tied
\* for the maximum, is the numerically lowest.
C7_AsStated ==
    pc = "done" =>
        /\ VotesAsClaimed
        /\ AnyVote =>
               /\ HasMaxVotes(misalignment)
               /\ \A t \in Shifts : HasMaxVotes(t) => misalignment <= t

\* C7 amended: the votes are as stated and the chosen shift has the maximum
\* vote count; among shifts tied for the maximum the chosen one is the shift
\* whose first vote comes earliest in the scan (lowest i, then lowest s).
C7_VotesAndFirstVotedMax ==
    pc = "done" =>
        /\ VotesAsClaimed
        /\ AnyVote =>
               /\ HasMaxVotes(misalignment)
               /\ \A t \in Shifts \ {misalignment} :
                      HasMaxVotes(t) =>
                          \/ FirstVote(misalignment) < FirstVote(t)
                          \/ FirstVote(misalignment) = FirstVote(t) /\ misalignment < t

\* Two shifts tie for the maximum and the one chosen is not the lowest.
C7_Witness ==
    /\ pc = "done" /\ AnyVote
    /\ \E t \in Shifts : t < misalignment /\ HasMaxVotes(t) /\ HasMaxVotes(misalignment)

\* C8 as stated: first_valid_index = 0 when shift = 0 and max(0, -shift) when
\* shift # 0, for every returned decision.
C8_AsStated ==
    pc = "done" =>
        first_valid_entry = IF misalignment = 0 THEN 0 ELSE Max(0, -misalignment)

\* C8 amended: first_valid_index = 0 when shift = 0 and max(1, 1 - shift) when
\* shift # 0, for every returned decision.
C8_FirstValidIndexOfShift ==
    pc = "done" =>
        first_valid_entry = IF misalignment = 0 THEN 0 ELSE Max(1, 1 - misalignment)

\* A decision with shift -2 has been returned, with first_valid_index 3.
C8_Witness ==
    pc = "done" /\ misalignment = -2 /\ first_valid_entry = 3

\* C9: when some bucket has votes the returned shift is a shift with the
\* maximum vote count, and first_valid_index is 0 for shift 0, 1 for every
\* positive shift and max(1, 1 - shift) for every negative shift.
C9_StatisticalDecision ==
    (pc = "done" /\ AnyVote) =>
        /\ HasMaxVotes(misalignment)
        /\ misalignment = 0 => first_valid_entry = 0
        /\ misalignment > 0 => first_valid_entry = 1
        /\ misalignment < 0 => first_valid_entry = Max(1, 1 - misalignment)
        /\ conclusion \in {"Detected +1", "No misalignment", "Detected shift"}

\* The vote was won by shift +3 and first_valid_index is 1.
C9_Witness ==
    pc = "done" /\ AnyVote /\ misalignment = 3 /\ first_valid_entry = 1

\* C10: when no bucket has a vote, the lowest j with metadata[j].offset = R[0]
\* gives shift j - 1 and first_valid_index 1; with no such j, an empty R or an
\* empty metadata table the result is shift 0, first_valid_index 0; the
\* fallback branch is never taken when a bucket has a vote.
C10_Fallback ==
    pc = "done" =>
        /\ ~AnyVote =>
               LET found == IF Len(rock26_table) = 0 THEN {}
                            ELSE {j \in 0..(Len(metadata_entries) - 1) :
                                     metadata_entries[j + 1].offset = rock26_table[1]}
               IN  IF found # {}
                   THEN /\ \E j \in found :
                               /\ \A k \in found : j <= k
                               /\ misalignment = j - 1
                        /\ first_valid_entry = 1
                        /\ conclusion = "Fallback detection result"
                   ELSE /\ misalignment = 0
                        /\ first_valid_entry = 0
                        /\ conclusion = "Statistical analysis failed"
        /\ conclusion \in {"Fallback detection result", "Statistical analysis failed"}
               => ~AnyVote

\* No bucket had a vote and the fallback matched R[0] at metadata index 4.
C10_Witness ==
    /\ pc = "done" /\ ~AnyVote
    /\ conclusion = "Fallback detection result"
    /\ misalignment = 3 /\ first_valid_entry = 1

\* C29: a returned shift is a voted shift in -3..3 or a fallback shift; the
\* fallback matches R[0] at an index j >= 4 only and returns j - 1 >= 3, and
\* then metadata[shift].offset differs from R[0].
C29_FallbackShiftAtLeastThree ==
    pc = "done" =>
        /\ AnyVote => (misalignment \in -3..3 /\ DictHas(offset_shift_votes, misalignment))
        /\ conclusion = "Fallback detection result" =>
               /\ ~AnyVote
               /\ misalignment >= 3
               /\ misalignment + 1 >= 4
               /\ misalignment + 1 < Len(metadata_entries)
               /\ metadata_entries[misalignment + 2].offset = rock26_table[1]
               /\ metadata_entries[misalignment + 1].offset # rock26_table[1]
        /\ conclusion = "Statistical analysis failed" => (~AnyVote /\ misalignment = 0)

\* A table of five entries whose last offset alone equals R[0]: the fallback
\* returned shift 3, and metadata[3].offset is not R[0].
C29_Witness ==
    /\ pc = "done" /\ ~AnyVote
    /\ Len(metadata_entries) = 5 /\ Len(rock26_table) > 0
    /\ metadata_entries[5].offset = rock26_table[1]
    /\ metadata_entries[4].offset # rock26_table[1]
    /\ conclusion = "Fallback detection result"
    /\ misalignment = 3

\* What C11 assumes of the tables, for a shift s.
Sampled == 0..(Min(20, Len(rock26_table)) - 1)
RockDistinct ==
    \A i, j \in Sampled : i # j => rock26_table[i + 1] # rock26_table[j + 1]
MetaDistinct ==
    \A i, j \in 1..Len(metadata_entries) :
        i # j => metadata_entries[i].offset # metadata_entries[j].offset
InRange(i, s) == 0 <= i + s /\ i + s < Len(metadata_entries)
ShiftedBy(s) ==
    /\ RockDistinct /\ MetaDistinct
    /\ \A i \in Sampled : InRange(i, s) => metadata_entries[i + s + 1].offset = rock26_table[i + 1]
    /\ \E i \in Sampled : InRange(i, s)
\* The sampled offsets that have no partner under shift s occur nowhere in
\* the metadata table.
UnpairedForeign(s) ==
    \A i \in Sampled : ~InRange(i, s) =>
        \A j \in 1..Len(metadata_entries) : metadata_entries[j].offset # rock26_table[i + 1]

\* C11 as stated: when the sampled ROCK26 offsets are pairwise distinct, the
\* metadata offsets are pairwise distinct and metadata[i+s].offset = R[i] for
\* every sampled i with i+s in range (at least one), the vote map has the
\* single bucket s and the detection returns s.
C11_AsStated ==
    pc = "done" =>
        \A s \in Shifts :
            ShiftedBy(s) => offset_shift_votes.keys = <<s>> /\ misalignment = s

\* C11 amended: under the same assumptions, and when in addition every sampled
\* R[i] whose i+s is out of range occurs nowhere among the metadata offsets,
\* the vote map is {s: n}, n the number of sampled i with i+s in range, the
\* detection returns s, and first_valid_index is 0 for s = 0, 1 for s > 0 and
\* max(1, 1 - s) for s < 0.
C11_SingleBucket ==
    pc = "done" =>
        \A s \in Shifts :
            (ShiftedBy(s) /\ UnpairedForeign(s)) =>
                /\ offset_shift_votes.keys = <<s>>
                /\ offset_shift_votes.val = <<Cardinality({i \in Sampled : InRange(i, s)})>>
                /\ misalignment = s
                /\ first_valid_entry = IF s = 0 THEN 0 ELSE IF s > 0 THEN 1 ELSE Max(1, 1 - s)

\* The corpus table with three distinct extra leading entries has been
\* analysed: votes {3: 5}, shift 3.
C11_Witness ==
    /\ pc = "done"
    /\ ShiftedBy(3) /\ UnpairedForeign(3)
    /\ Len(rock26_table) = 5
    /\ offset_shift_votes = [keys |-> <<3>>, val |-> <<5>>]
    /\ misalignment = 3

(***************************************************************************)
(* Metadata table locator: extract_resource_smart.py                       *)
(* find_metadata_table_by_rock26_anchor, parse_metadata_table_part5 and    *)
(* the head of extract_part5_bitmaps_smart                                 *)
(***************************************************************************)
METADATA_ENTRY_SIZE == 108
OFFSET_FIELD_POS == 20
ROCK26_LITERAL == <<82, 79, 67, 75, 50, 54, 73, 77, 65, 71, 69, 82, 69, 83>>  \* b'ROCK26IMAGERES'
DOT_BMP == <<46, 66, 77, 80>>                                                \* '.BMP'

\* data.find(literal): the lowest 0-based position of literal, or -1
bytes_find(data, literal) ==
    LET hits == {i \in 0..(Len(data) - Len(literal)) : Slice(data, i, i + Len(literal)) = literal}
    IN  IF hits = {} THEN -1 ELSE CHOOSE i \in hits : \A j \in hits : i <= j

\* name_bytes.split(b'\x00')[0].decode('ascii', errors='ignore')
split_nul_ascii(name_bytes) ==
    LET nuls == {i \in 1..Len(name_bytes) : name_bytes[i] = 0}
        upto == IF nuls = {} THEN Len(name_bytes)
                ELSE (CHOOSE i \in nuls : \A j \in nuls : i <= j) - 1
    IN  SelectSeq(SubSeq(name_bytes, 1, upto), LAMBDA b : b < 128)

\* name.endswith('.BMP')
endswith_BMP(name) ==
    Len(name) >= Len(DOT_BMP) /\ SubSeq(name, Len(name) - Len(DOT_BMP) + 1, Len(name)) = DOT_BMP

\* all(c.isprintable() or c in '._-(), ' for c in test_name), on ASCII
all_printable(name) == \A i \in 1..Len(name) : 32 <= name[i] /\ name[i] <= 126

\* range(0, len(part5_data) - METADATA_ENTRY_SIZE, 4)
scan_positions(data) ==
    {pos \in 0..(Len(data) - METADATA_ENTRY_SIZE - 1) : pos % 4 = 0}

\* The body of the scan loop: pos is appended to matching_positions.
scan_match(data, pos, anchor_offset) ==
    /\ unpack_I(data, pos + OFFSET_FIELD_POS) = anchor_offset
    /\ LET name == split_nul_ascii(Slice(data, pos + 32, pos + 96))
       IN  endswith_BMP(name) /\ Len(name) >= 3

\* The backward walk "while table_start >= METADATA_ENTRY_SIZE" from ts on.
RECURSIVE walk_back(_, _)
walk_back(data, ts) ==
    IF ts >= METADATA_ENTRY_SIZE
    THEN LET test_pos == ts - METADATA_ENTRY_SIZE
             test_entry == Slice(data, test_pos, test_pos + METADATA_ENTRY_SIZE)
             test_name == split_nul_ascii(Slice(test_entry, 32, 96))
         IN  IF test_name # <<>> /\ endswith_BMP(test_name) /\ Len(test_name) >= 3
             THEN IF all_printable(test_name) THEN walk_back(data, test_pos) ELSE ts
             ELSE ts
    ELSE ts

\* find_metadata_table_by_rock26_anchor: the positions matched and the value
\* returned (<<>> for None).  A ROCK26 header too close to the end of the data for its first
\* entry's offset field makes struct.unpack raise, which returns None.
find_metadata_table_by_rock26_anchor(data) ==
    LET found == bytes_find(data, ROCK26_LITERAL)
        rock26_entries_start == found + 32
    IN  IF found = -1 \/ rock26_entries_start + 16 > Len(data)
        THEN [matching |-> {}, table_start |-> <<>>]
        ELSE LET anchor_offset == unpack_I(data, rock26_entries_start + 12)
                 matching == {pos \in scan_positions(data) : scan_match(data, pos, anchor_offset)}
             IN  IF matching = {}
                 THEN [matching |-> {}, table_start |-> <<>>]
                 ELSE LET first_match == CHOOSE p \in matching : \A q \in matching : p <= q
                      IN  [matching |-> matching, table_start |-> <<walk_back(data, first_match)>>]

\* The loop of parse_metadata_table_part5 from pos on.
RECURSIVE parse_metadata_table_part5(_, _, _)
parse_metadata_table_part5(data, pos, entries) ==
    IF pos + METADATA_ENTRY_SIZE <= Len(data)
    THEN LET entry == Slice(data, pos, pos + 108)
             name == split_nul_ascii(Slice(entry, 32, 96))
         IN  IF name = <<>> \/ Len(name) < 3 THEN entries
             ELSE parse_metadata_table_part5(data, pos + METADATA_ENTRY_SIZE,
                      Append(entries, [index |-> Len(entries),
                                       offset |-> unpack_I(entry, 20),
                                       width |-> unpack_I(entry, 24),
                                       height |-> unpack_I(entry, 28),
                                       name |-> name]))
    ELSE entries

\* Part 5 images the locator is run on: up to MaxEntries metadata entries of
\* the kinds below, a ROCK26 header with its first entry (whole, cut short, or
\* missing) before or after them, and padding in front and behind.
MaxEntries == 2
ANCHOR == 4096
NAME_A == <<65>> \o DOT_BMP                    \* 'A.BMP'
NAME_CTRL == <<7>> \o DOT_BMP                  \* '\x07.BMP'
NAME_SHORT == <<65, 66>>                       \* 'AB'
MetaEntry(offset, w, h, name) ==
    Zeros(20) \o pack_I(offset) \o pack_I(w) \o pack_I(h)
        \o name \o Zeros(64 - Len(name)) \o Zeros(12)
EntryKinds ==
    {MetaEntry(ANCHOR, 2, 2, NAME_A),          \* the anchor's entry
     MetaEntry(4352, 1, 2, NAME_A),            \* another resource
     MetaEntry(4352, 1, 2, NAME_CTRL),         \* a name the backward walk rejects
     MetaEntry(ANCHOR, 2, 2, NAME_SHORT),      \* the anchor's offset without a .BMP name
     MetaEntry(0, 0, 0, <<>>)}                 \* an empty slot
RECURSIVE Flatten(_)
Flatten(seqs) == IF seqs = <<>> THEN <<>> ELSE Head(seqs) \o Flatten(Tail(seqs))
Rock26Header == ROCK26_LITERAL \o Zeros(32 - Len(ROCK26_LITERAL)) \o Zeros(12) \o pack_I(ANCHOR)
Rock26Kinds == {Rock26Header, SubSeq(Rock26Header, 1, 40), <<>>}
LeadPads == {0, 2, 4}
TailPads == {0, 4}
LocateInputs ==
    {Zeros(lead) \o (IF rockFirst THEN rock \o Flatten(es) ELSE Flatten(es) \o rock) \o Zeros(tail) :
        lead \in LeadPads, rockFirst \in BOOLEAN, es \in SeqsUpTo(EntryKinds, MaxEntries),
        rock \in Rock26Kinds, tail \in TailPads}

LocateInit ==
    /\ pc = "ready"
    /\ part5_data \in LocateInputs
    /\ rock26_offset = -1 /\ matching_positions = {}
    /\ table_start = <<>> /\ parsed_entries = <<>>
    /\ IdleExceptLocate

\* rock26_offset = part5_data.find(b'ROCK26IMAGERES'); return None when -1
LocateRock26 ==
    /\ pc = "ready"
    /\ rock26_offset' = bytes_find(part5_data, ROCK26_LITERAL)
    /\ pc' = IF rock26_offset' = -1 THEN "rock26_not_found" ELSE "rock26_found"
    /\ UNCHANGED <<part5_data, matching_positions, table_start, parsed_entries, exceptLocate>>

\* table_start = find_metadata_table_in_part5(...); "if not table_start" returns
\* None: not table_start is true of None and of 0.
FindMetadataTable ==
    /\ pc = "rock26_found"
    /\ LET res == find_metadata_table_by_rock26_anchor(part5_data)
       IN  /\ matching_positions' = res.matching
           /\ table_start' = res.table_start
           /\ pc' = IF res.table_start = <<>> \/ res.table_start[1] = 0
                    THEN "table_not_found" ELSE "table_found"
    /\ UNCHANGED <<part5_data, rock26_offset, parsed_entries, exceptLocate>>

\* metadata_entries = parse_metadata_table_part5(part5_data, table_start)
ParseMetadataTable ==
    /\ pc = "table_found"
    /\ parsed_entries' = parse_metadata_table_part5(part5_data, table_start[1], <<>>)
    /\ pc' = "parsed"
    /\ UNCHANGED <<part5_data, rock26_offset, matching_positions, table_start, exceptLocate>>

LocateNext == LocateRock26 \/ FindMetadataTable \/ ParseMetadataTable
SpecLocate == LocateInit /\ [][LocateNext]_vars

\* What the locator is specified to compute, stated on the Part 5 bytes.
Rock26Positions ==
    {i \in 0..(Len(part5_data) - 14) : SubSeq(part5_data, i + 1, i + 14) = ROCK26_LITERAL}
FirstRock26 == CHOOSE i \in Rock26Positions : \A j \in Rock26Positions : i <= j
AnchorReadable == Rock26Positions # {} /\ FirstRock26 + 48 <= Len(part5_data)
Anchor == unpack_I(part5_data, FirstRock26 + 44)
NameAt(p) == split_nul_ascii(SubSeq(part5_data, p + 33, p + 96))
IsMatch(p) ==
    /\ unpack_I(part5_data, p + 20) = Anchor
    /\ Len(NameAt(p)) >= 4
    /\ SubSeq(NameAt(p), Len(NameAt(p)) - 3, Len(NameAt(p))) = <<46, 66, 77, 80>>
SpecifiedMatches ==
    IF AnchorReadable
    THEN {p \in 0..(Len(part5_data) - 108) : p % 4 = 0 /\ IsMatch(p)}
    ELSE {}
LocatorReturned == pc \in {"table_found", "table_not_found", "parsed"}
PassAborted == pc \in {"rock26_not_found", "table_not_found"}
PassProceeded == pc \in {"table_found", "parsed"}

\* C12 as stated: the pass is aborted with table-not-found exactly when
\* ROCK26IMAGERES is absent from part5 or no scanned position matches the
\* anchor; in every other case, a table located at position 0 included, it
\* proceeds to parse the metadata table.
C12_AsStated ==
    (PassAborted \/ PassProceeded) =>
        (PassAborted <=> (Rock26Positions = {} \/ SpecifiedMatches = {}))

\* C13 as stated: the scan considers every 4-byte-aligned p with p + 108 <=
\* |part5|, the last one p = |part5| - 108 included; p is a match iff the u32
\* at p+20 equals the anchor and the NUL-terminated name at p+32 ends in .BMP.
C13_AsStated ==
    (LocatorReturned /\ AnchorReadable) => matching_positions = SpecifiedMatches

(***************************************************************************)
(* Font table locator: extract_font_universal.py FirmwareAnalyzer          *)
(* _score_window and search_offset_table                                   *)
(***************************************************************************)
scoreVars  == <<window_start, window_end, base_alignment, window_score>>
searchVars == <<search_start, search_end, current_stride, current_regions, region_idx,
                region_results, best_addr, best_score, iteration, scored>>
mainVars   == <<addresses, confidence, verify_only, unicode_ranges, range_idx, font_type,
                uni, range_calls, glyph_files>>
ScoreIdle ==
    /\ window_start = 0 /\ window_end = 0 /\ base_alignment = <<>> /\ window_score = <<>>
SearchIdle ==
    /\ search_start = 0 /\ search_end = 0 /\ current_stride = 0 /\ current_regions = <<>>
    /\ region_idx = 0 /\ region_results = <<>> /\ best_addr = <<>> /\ best_score = -1
    /\ iteration = 0 /\ scored = <<>>
MainIdle ==
    /\ addresses = <<>> /\ confidence = <<>> /\ verify_only = FALSE
    /\ unicode_ranges = <<>> /\ range_idx = 0 /\ font_type = None /\ uni = 0
    /\ range_calls = <<>> /\ glyph_files = <<>>

\* self.firmware[a], 0 <= a < len(self.firmware)
fw_byte(fw, a) == IF a \in DOMAIN fw.data THEN fw.data[a] ELSE 0

\* self.firmware[a:b], 0 <= a
fw_slice(fw, a, b) ==
    LET hi == Min(b, fw.len)
    IN  IF hi <= a THEN <<>> ELSE [i \in 1..(hi - a) |-> fw_byte(fw, a + i - 1)]

\* get_firmware_partition: struct.unpack('<IIII', self.firmware[0x80:0x90])
get_firmware_partition(fw) ==
    LET part == fw_slice(fw, 128, 128 + 16)
    IN  [offset |-> unpack_I(part, 0), size |-> unpack_I(part, 4)]

FOOTER_SIGNATURES == {144, 143, 137, 139, 141, 142, 140}   \* 0x90 0x8F 0x89 0x8B 0x8D 0x8E 0x8C
INVALID_VALUES == {0, 255}
max_anomalies == 5

\* if current_length > max_sequence_length: the maximum becomes the current streak
close_streak(st) ==
    IF st.current_length > st.max_sequence_length
    THEN [st EXCEPT !.max_sequence_length = st.current_length,
                    !.max_sequence_start = st.current_start]
    ELSE st

\* Mutant: the anomaly count is not reset by a footer signature.
score_byte_keep_anomalies(st, addr, byte_32) ==
    IF byte_32 \in INVALID_VALUES
    THEN [close_streak(st) EXCEPT !.current_length = 0, !.consecutive_anomalies = 0]
    ELSE IF byte_32 \in FOOTER_SIGNATURES
    THEN [st EXCEPT !.current_start = IF st.current_length = 0 THEN addr ELSE @,
                    !.current_length = @ + 1]
    ELSE IF st.consecutive_anomalies + 1 <= max_anomalies
    THEN [st EXCEPT !.consecutive_anomalies = @ + 1,
                    !.current_start = IF st.current_length = 0 THEN addr ELSE @,
                    !.current_length = @ + 1]
    ELSE [close_streak(st) EXCEPT !.current_length = 0, !.consecutive_anomalies = 0]

\* Mutant: a sixth anomaly in a row still extends the streak.
score_byte_six_anomalies(st, addr, byte_32) ==
    IF byte_32 \in INVALID_VALUES
    THEN [close_streak(st) EXCEPT !.current_length = 0, !.consecutive_anomalies = 0]
    ELSE IF byte_32 \in FOOTER_SIGNATURES
    THEN [st EXCEPT !.current_start = IF st.current_length = 0 THEN addr ELSE @,
                    !.current_length = @ + 1,
                    !.consecutive_anomalies = 0]
    ELSE IF st.consecutive_anomalies + 1 <= max_anomalies + 1
    THEN [st EXCEPT !.consecutive_anomalies = @ + 1,
                    !.current_start = IF st.current_length = 0 THEN addr ELSE @,
                    !.current_length = @ + 1]
    ELSE [close_streak(st) EXCEPT !.current_length = 0, !.consecutive_anomalies = 0]

\* The if / elif / else on byte_32 of one loop iteration of _score_window.
score_byte(st, addr, byte_32) ==
    IF byte_32 \in INVALID_VALUES
    THEN [close_streak(st) EXCEPT !.current_length = 0, !.consecutive_anomalies = 0]
    ELSE IF byte_32 \in FOOTER_SIGNATURES
    THEN [st EXCEPT !.current_start = IF st.current_length = 0 THEN addr ELSE @,
                    !.current_length = @ + 1,
                    !.consecutive_anomalies = 0]
    ELSE IF st.consecutive_anomalies + 1 <= max_anomalies
    THEN [st EXCEPT !.consecutive_anomalies = @ + 1,
                    !.current_start = IF st.current_length = 0 THEN addr ELSE @,
                    !.current_length = @ + 1]
    ELSE [close_streak(st) EXCEPT !.current_length = 0, !.consecutive_anomalies = 0]

\* "for offset in range(0, window_end - window_start, LARGE_STRIDE)" from
\* offset on, with its break and its continue.
\* The loop of _score_window; nxt is the state after the byte at addr.
RECURSIVE score_loop(_, _, _, _, _, _)
score_loop(fw, ws, we, align, offset, st) ==
    IF offset >= we - ws THEN st
    ELSE LET addr == ws + offset
         IN  IF addr + 32 >= fw.len THEN st
             ELSE IF align # <<>> /\ addr % LARGE_STRIDE # align[1]
             THEN score_loop(fw, ws, we, align, offset + LARGE_STRIDE, st)
             ELSE CHOOSE res \in
                      {score_loop(fw, ws, we, align, offset + LARGE_STRIDE, nxt) :
                          nxt \in {score_byte(st, addr, fw_byte(fw, addr + 32))}} : TRUE

\* _score_window: (max_sequence_length, max_sequence_start)
score_window(fw, ws, we, align) ==
    LET st == close_streak(score_loop(fw, ws, we, align, 0,
                  [max_sequence_length |-> 0, max_sequence_start |-> ws,
                   current_length |-> 0, current_start |-> ws,
                   consecutive_anomalies |-> 0]))
    IN  [score |-> st.max_sequence_length, first_addr |-> st.max_sequence_start]

\* Firmware images: a 0x90-byte header whose partition descriptor at 0x80
\* names [TABLE_AT, TABLE_AT + size), and 33-byte cells from TABLE_AT on whose
\* footer bytes (cell offset 32) follow a pattern.
TABLE_AT == 160
Place(addr, bytes) == [a \in addr..(addr + Len(bytes) - 1) |-> bytes[a - addr + 1]]
Footers(at, pattern) ==
    [a \in {at + LARGE_STRIDE * (k - 1) + 32 : k \in 1..Len(pattern)} |->
        pattern[((a - at - 32) \div LARGE_STRIDE) + 1]]
FirmwareOf(pattern, size, tail) ==
    [len |-> TABLE_AT + LARGE_STRIDE * Len(pattern) + tail,
     data |-> Place(128, pack_I(TABLE_AT) \o pack_I(size)) @@ Footers(TABLE_AT, pattern)]

\* Footer patterns: up to MaxBlocks runs, each a footer signature, an invalid
\* value or an anomaly, the anomalies in runs of 1, 5 and 6.
MaxBlocks == 3
FooterBlocks ==
    {<<144>>, <<140, 143>>, <<0>>, <<255>>, <<65>>,
     <<65, 66, 67, 68, 69>>, <<65, 66, 67, 68, 69, 70>>}
FooterPatterns == {Flatten(bs) : bs \in SeqsUpTo(FooterBlocks, MaxBlocks)}

\* The calls of _score_window: on the whole table or on part of it, from the
\* table's start or one cell or one byte later, with no alignment, the
\* window's own or another; in a firmware that ends with the table or ten
\* bytes after it.  A shape is <<tail, start - TABLE_AT, cut, alignment>>.
CallShapes ==
    {<<0, 0, FALSE, "none">>, <<10, 0, FALSE, "none">>, <<0, 0, TRUE, "none">>,
     <<0, LARGE_STRIDE, FALSE, "none">>, <<0, LARGE_STRIDE, FALSE, "own">>,
     <<10, 1, FALSE, "none">>, <<0, 1, TRUE, "own">>, <<0, 0, FALSE, "other">>}
ScoreCall(p, shape) ==
    LET tail == shape[1]
        d == shape[2]
        n == TABLE_AT + LARGE_STRIDE * Len(p) + tail
    IN  [fw |-> FirmwareOf(p, LARGE_STRIDE * Len(p), tail),
         ws |-> TABLE_AT + d,
         we |-> IF shape[3] THEN Min(TABLE_AT + d + 100, n) ELSE n,
         align |-> IF shape[4] = "none" THEN <<>>
                   ELSE IF shape[4] = "own" THEN <<(TABLE_AT + d) % LARGE_STRIDE>>
                   ELSE <<(TABLE_AT + 2) % LARGE_STRIDE>>]
ScoreCalls == {ScoreCall(p, shape) : p \in FooterPatterns, shape \in CallShapes}

ScoreInit ==
    /\ pc = "ready"
    /\ \E call \in ScoreCalls :
           /\ firmware = call.fw
           /\ window_start = call.ws /\ window_end = call.we
           /\ base_alignment = call.align
    /\ window_score = <<>>
    /\ SearchIdle /\ MainIdle
    /\ IdleExceptFont

ScoreWindow ==
    /\ pc = "ready"
    /\ pc' = "done"
    /\ window_score' = score_window(firmware, window_start, window_end, base_alignment)
    /\ UNCHANGED <<firmware, window_start, window_end, base_alignment, searchVars, mainVars,
                   exceptFont>>

ScoreNext == ScoreWindow
SpecScore == ScoreInit /\ [][ScoreNext]_vars

\* The streaks of the window, stated on the footer bytes: cell k of the window
\* is at window_start + 33k; the cells read are those inside the window whose
\* footer byte lies inside the firmware.
CellAddr(k) == window_start + 33 * k
CellsRead ==
    {k \in 0..((window_end - window_start) \div 33) :
        CellAddr(k) < window_end /\ CellAddr(k) + 32 < firmware.len}
FooterOf(k) == fw_byte(firmware, CellAddr(k) + 32)
IsInvalid(k) == FooterOf(k) \in {0, 255}
IsFooter(k) == FooterOf(k) \in {144, 143, 137, 139, 141, 142, 140}
IsAnomaly(k) == ~IsInvalid(k) /\ ~IsFooter(k)
\* The number of cells of the unbroken run of anomalies that ends at cell k
AnomalyRun(k) == Cardinality({j \in 0..k : \A i \in j..k : IsAnomaly(i)})
\* closes[k]: cell k closes the streak, being an invalid byte or the sixth
\* anomaly in a row counted from the last reset.
ClosingCells == [k \in CellsRead |-> IsInvalid(k) \/ (IsAnomaly(k) /\ AnomalyRun(k) % 6 = 0)]
\* The streaks of a window: the maximal runs of cells read, none of them
\* closing, as pairs <<first cell, last cell>>; the longest, earliest first.
StreaksOf(closes) ==
    LET cells == DOMAIN closes
        starts == {a \in cells : ~closes[a] /\ (a - 1 \in cells => closes[a - 1])}
        EndOf(a) == CHOOSE b \in cells :
                        /\ a <= b /\ \A k \in a..b : ~closes[k]
                        /\ (b + 1 \in cells => closes[b + 1])
    IN  {<<a, EndOf(a)>> : a \in starts}
StreakLen(s) == s[2] - s[1] + 1
AutomatonResult ==
    LET streaks == StreaksOf(ClosingCells)
        longest == {s \in streaks : \A t \in streaks : StreakLen(t) <= StreakLen(s)}
    IN  IF streaks = {}
        THEN [score |-> 0, first_addr |-> window_start]
        ELSE LET s == CHOOSE s \in longest : \A t \in longest : s[1] <= t[1]
             IN  [score |-> StreakLen(s), first_addr |-> CellAddr(s[1])]
AlignmentAdmits == base_alignment = <<>> \/ window_start % 33 = base_alignment[1]

\* C14 as stated: _score_window returns the length of the longest streak of
\* the automaton run over the footer bytes at window_start + 33k, and the
\* address at which that streak began (the earliest on ties, window_start when
\* the score is 0), for every call.
C14_AsStated ==
    pc = "done" => window_score = AutomatonResult

\* C14 amended: when no alignment is given, or the alignment given equals
\* window_start mod 33, _score_window returns the length of the longest streak
\* of the automaton (an invalid byte closes the streak; a footer byte extends
\* it; an anomaly extends it unless it is the sixth in a row since the last
\* reset, which closes it) over the cells inside the window whose footer byte
\* is inside the firmware, and the address at which the earliest such streak
\* began, window_start when the score is 0.  With any other alignment every
\* cell is skipped and it returns score 0 and window_start.
C14_ScoreIsLongestStreak ==
    pc = "done" =>
        window_score = IF AlignmentAdmits THEN AutomatonResult
                       ELSE [score |-> 0, first_addr |-> window_start]

\* A window whose footers are six anomalies, a footer signature and five
\* anomalies has been scored from its second cell on: the streak of eleven
\* cells begins at that cell.
C14_Witness ==
    /\ pc = "done"
    /\ window_start = 193 /\ base_alignment = <<28>>
    /\ \A k \in 0..4 : IsAnomaly(k)
    /\ IsFooter(5)
    /\ \A k \in 6..10 : IsAnomaly(k)
    /\ window_score = [score |-> 11, first_addr |-> 193]

\* The loop of _score_window after its first n offsets: the automaton's state,
\* the cells it has evaluated, and the cells of the current streak.
StateAfter(n) ==
    score_loop(firmware, window_start, Min(window_end, window_start + 33 * n),
               base_alignment, 0,
               [max_sequence_length |-> 0, max_sequence_start |-> window_start,
                current_length |-> 0, current_start |-> window_start,
                consecutive_anomalies |-> 0])
\* The cells evaluated are 0 .. SeenAfter(n) - 1, the last current_length of
\* them are the current streak.
SeenAfter(n) == IF AlignmentAdmits THEN Min(n, Cardinality(CellsRead)) ELSE 0
LastOffset == ((window_end - window_start) + 32) \div 33
\* The cells of the streak that was returned
ReturnedStreak ==
    {(window_score.first_addr - window_start) \div 33 + i : i \in 0..(window_score.score - 1)}

\* C28: after every iteration of _score_window the current streak holds no
\* cell whose footer byte is 0x00 or 0xFF and no six consecutive cells without
\* a footer signature, and consecutive_anomalies is in 0..5; a streak of six
\* cells or more, and so a returned streak of score six or more, has a cell
\* with a footer signature; a window without any footer signature scores at
\* most 5.
C28_StreakInvariants ==
    pc = "done" =>
        /\ \A n \in 0..LastOffset :
               \E st \in {StateAfter(n)} :
               \E last \in {SeenAfter(n) - 1} :
               \E first \in {last - st.current_length + 1} :
                   /\ first >= 0
                   /\ \A k \in first..last : ~IsInvalid(k)
                   /\ \A k \in first..(last - 5) : \E j \in k..(k + 5) : IsFooter(j)
                   /\ st.consecutive_anomalies \in 0..5
                   /\ st.current_length >= 6 => \E k \in first..last : IsFooter(k)
                   /\ n = LastOffset => window_score.score = close_streak(st).max_sequence_length
        /\ window_score.score >= 6 => \E k \in ReturnedStreak : IsFooter(k)
        /\ (\A k \in CellsRead : ~IsFooter(k)) => window_score.score <= 5

\* A window of five cells, none with a footer signature, has scored 5.
C28_Witness ==
    /\ pc = "done"
    /\ Cardinality(CellsRead) = 5
    /\ \A k \in CellsRead : IsAnomaly(k)
    /\ window_score.score = 5
    /\ StateAfter(5).consecutive_anomalies = 5

(***************************************************************************)
(* FirmwareAnalyzer.search_offset_table                                    *)
(***************************************************************************)
window_size == 20902 * LARGE_STRIDE
min_stride == 100

\* Mutant: a window that equals the best score replaces the best address.
improves_or_equal(score, best) == score >= best

\* if score > best_score
improves(score, best) == score > best

\* The nested for loops of one round stand at window ws of region idx; the
\* next window to score is the first (region, window) at or after that
\* position, idx = Len(regions) + 1 when there is none.
RECURSIVE next_window(_, _, _)
next_window(regions, idx, ws) ==
    IF idx > Len(regions) THEN [region_idx |-> idx, window_start |-> 0]
    ELSE IF ws < regions[idx].end THEN [region_idx |-> idx, window_start |-> ws]
    ELSE IF idx + 1 > Len(regions) THEN [region_idx |-> idx + 1, window_start |-> 0]
    ELSE next_window(regions, idx + 1, regions[idx + 1].start)

\* region_results.sort(key=score, reverse=True)[:n]: a stable sort, so that
\* windows of equal score keep their scan order.
RECURSIVE top_windows_of(_, _, _)
top_windows_of(results, remaining, n) ==
    IF n = 0 \/ remaining = {} THEN <<>>
    ELSE LET k == CHOOSE k \in remaining :
                      \A j \in remaining :
                          \/ results[j].score < results[k].score
                          \/ results[j].score = results[k].score /\ k <= j
         IN  <<results[k]>> \o top_windows_of(results, remaining \ {k}, n - 1)

\* Mutant: the enqueued region is not clamped to the partition.
refined_region_unclamped(win, stride, lo, hi) ==
    LET chars_extend == (stride \div LARGE_STRIDE) + 1
    IN  [start |-> win.first_addr - chars_extend * LARGE_STRIDE,
         end |-> win.first_addr + chars_extend * LARGE_STRIDE]

\* The region enqueued for a retained window.
refined_region(win, stride, lo, hi) ==
    LET chars_extend == (stride \div LARGE_STRIDE) + 1
    IN  [start |-> Max(lo, win.first_addr - chars_extend * LARGE_STRIDE),
         end |-> Min(hi, win.first_addr + chars_extend * LARGE_STRIDE)]

\* Firmware images searched: the footer patterns of up to MaxSearchBlocks
\* blocks, in a partition that covers the table, and tables with a long
\* invalid lead-in whose refined regions start inside the table.
MaxSearchBlocks == 2
SearchBlocks ==
    {<<144>>, <<144, 143, 140>>, <<0>>, <<65, 66, 67, 68, 69, 70>>, Zeros(12)}
SearchPatterns ==
    {Flatten(bs) : bs \in SeqsUpTo(SearchBlocks, MaxSearchBlocks)}
    \cup {<<65, 65, 65, 65, 65, 65>> \o <<144, 144, 144, 144, 144>> \o <<0>>
              \o <<144, 144, 144, 144, 144, 144, 144>>}
SearchFirmwares ==
    {FirmwareOf(p, LARGE_STRIDE * Len(p), tail) : p \in SearchPatterns, tail \in {0, 40}}
    \cup {FirmwareOf(p, 0, 0) : p \in {<<144, 144>>}}

\* The state at the head of the while loop, before its first test.
SearchInit ==
    /\ pc = "loop_test"
    /\ firmware \in SearchFirmwares
    /\ search_start = get_firmware_partition(firmware).offset
    /\ search_end = get_firmware_partition(firmware).offset + get_firmware_partition(firmware).size
    /\ current_stride = window_size \div 2
    /\ current_regions = <<[start |-> search_start, end |-> search_end]>>
    /\ iteration = 0
    /\ best_addr = <<>> /\ best_score = -1
    /\ base_alignment = <<>>
    /\ region_idx = 0 /\ region_results = <<>> /\ scored = <<>>
    /\ window_start = 0 /\ window_end = 0 /\ window_score = <<>>
    /\ MainIdle
    /\ IdleExceptFont

\* while current_stride > min_stride and current_regions: a round begins.
BeginRound ==
    /\ pc = "loop_test"
    /\ current_stride > min_stride /\ current_regions # <<>>
    /\ pc' = "scanning"
    /\ iteration' = iteration + 1
    /\ region_results' = <<>>
    /\ LET nxt == next_window(current_regions, 1, current_regions[1].start)
       IN  region_idx' = nxt.region_idx /\ window_start' = nxt.window_start
    /\ UNCHANGED <<firmware, window_end, base_alignment, window_score, search_start, search_end,
                   current_stride, current_regions, best_addr, best_score, scored, mainVars,
                   exceptFont>>

\* The body of the inner for loop, for the window at window_start.
ScoreNextWindow ==
    /\ pc = "scanning"
    /\ region_idx <= Len(current_regions)
    /\ \E we \in {Min(window_start + window_size, firmware.len)} :
       \E res \in {score_window(firmware, window_start, we, base_alignment)} :
       LET rec == [window_start |-> window_start, score |-> res.score,
                   first_addr |-> res.first_addr]
           nxt == next_window(current_regions, region_idx, window_start + current_stride)
       IN  /\ window_end' = we
           /\ window_score' = res
           /\ best_score' = IF improves(res.score, best_score) THEN res.score ELSE best_score
           /\ best_addr' = IF improves(res.score, best_score) THEN <<res.first_addr>> ELSE best_addr
           /\ region_results' = Append(region_results, rec)
           /\ scored' = Append(scored, rec)
           /\ region_idx' = nxt.region_idx
           /\ window_start' = nxt.window_start
    /\ UNCHANGED <<pc, firmware, base_alignment, search_start, search_end, current_stride,
                   current_regions, iteration, mainVars, exceptFont>>

\* The rest of the round: the top five windows, the alignment, the next
\* regions and the next stride.
EndRound ==
    /\ pc = "scanning"
    /\ region_idx > Len(current_regions)
    /\ pc' = "loop_test"
    /\ \E top_windows \in {top_windows_of(region_results, 1..Len(region_results), 5)} :
           /\ base_alignment' = IF base_alignment = <<>> /\ top_windows # <<>>
                                THEN <<top_windows[1].first_addr % LARGE_STRIDE>>
                                ELSE base_alignment
           /\ current_regions' = [k \in 1..Len(top_windows) |->
                                     refined_region(top_windows[k], current_stride,
                                                    search_start, search_end)]
    /\ current_stride' = Max(min_stride, current_stride \div 2)
    /\ UNCHANGED <<firmware, window_start, window_end, window_score, search_start, search_end,
                   region_idx, region_results, best_addr, best_score, iteration, scored,
                   mainVars, exceptFont>>

\* The loop has ended: the best candidate is printed with the format 08X and
\* returned.  Formatting None raises TypeError.
SearchReturn ==
    /\ pc = "loop_test"
    /\ ~(current_stride > min_stride /\ current_regions # <<>>)
    /\ pc' = IF best_addr = <<>> THEN "raised" ELSE "returned"
    /\ UNCHANGED <<firmware, scoreVars, searchVars, mainVars, exceptFont>>

SearchNext == BeginRound \/ ScoreNextWindow \/ EndRound \/ SearchReturn
SpecSearch == SearchInit /\ [][SearchNext]_vars

\* The first of the windows scored so far whose score is the highest.
MaxScored == CHOOSE k \in 1..Len(scored) : \A j \in 1..Len(scored) : scored[j].score <= scored[k].score
FirstMaxScored ==
    CHOOSE k \in 1..Len(scored) :
        /\ scored[k].score = scored[MaxScored].score
        /\ \A j \in 1..(k - 1) : scored[j].score < scored[k].score

\* C15: search_offset_table returns the first_addr of a window whose score is
\* the maximum over every window scored in every round; among windows of
\* equal maximal score it is the first one scored.
C15_ReturnsFirstMaximum ==
    (pc = "returned" /\ scored # <<>>) =>
        /\ best_score = scored[FirstMaxScored].score
        /\ best_addr = <<scored[FirstMaxScored].first_addr>>

\* The first window scored seven cells from address 556; a window of a later
\* round, scored from address 193, reached ten, and the search returned 193.
C15_Witness ==
    /\ pc = "returned"
    /\ scored[1] = [window_start |-> 160, score |-> 7, first_addr |-> 556]
    /\ FirstMaxScored > 1
    /\ scored[FirstMaxScored] = [window_start |-> 193, score |-> 10, first_addr |-> 193]
    /\ best_addr = <<193>>


\* C26: when the search ends without having scored any window,
\* search_offset_table returns None: it does not raise.
C26_AsStated ==
    (pc \in {"returned", "raised"} /\ scored = <<>>) =>
        pc = "returned" /\ best_addr = <<>>

\* C25: the refinement loop runs at most 12 rounds; the rounds' strides are
\* 344883 halved down to 100; every round scans at most 5 regions after the
\* first, each within [search_start, search_end]; and the loop is left as
\* soon as the stride is at most 100 or no region remains.
RECURSIVE stride_of_round(_)
stride_of_round(n) ==
    IF n = 0 THEN window_size \div 2 ELSE Max(min_stride, stride_of_round(n - 1) \div 2)

RefinementBounds ==
    /\ iteration <= 12
    /\ Len(current_regions) <= 5
    /\ \A k \in 1..Len(current_regions) :
           /\ current_regions[k].start >= search_start
           /\ current_regions[k].end <= search_end
    /\ pc = "loop_test" => current_stride = stride_of_round(iteration)
    /\ pc = "scanning" => current_stride = stride_of_round(iteration - 1)
    /\ pc = "scanning" => current_stride > min_stride /\ current_regions # <<>>
    /\ pc \in {"returned", "raised"} =>
           current_stride <= min_stride \/ current_regions = <<>>

\* A search that ran its twelfth round, at stride 168, over five regions.
C25_Witness ==
    /\ pc = "scanning"
    /\ iteration = 12
    /\ current_stride = 168
    /\ Len(current_regions) = 5

\* The interpreter keeps taking the loop's steps while one is left to take.
SpecSearchFair == SpecSearch /\ WF_vars(SearchNext)

\* C25 (as a formula): the bounds above hold throughout, and the search ends.
C25_TerminatesWithinBounds ==
    []RefinementBounds /\ <>(pc \in {"returned", "raised"})

(***************************************************************************)
(* Glyph extraction: extract_font_universal.py main from the return of     *)
(* search_offset_table on, _validate_addresses and FontExtractor           *)
(***************************************************************************)
LOOKUP_TABLE == 524288      \* 0x080000
CJK_START == 19968          \* 0x4E00

\* detect_small_base: (config_7A << 16) | config_78
detect_small_base(fw) ==
    LET config_78 == fw_byte(fw, 120) + 256 * fw_byte(fw, 121)
        config_7A == fw_byte(fw, 122) + 256 * fw_byte(fw, 123)
    IN  config_7A * 65536 + config_78

unicode_to_small_addr(addrs, unicode_val) == addrs.SMALL_BASE + unicode_val * SMALL_STRIDE
unicode_to_large_addr(addrs, unicode_val) ==
    addrs.LARGE_BASE + (unicode_val - CJK_START) * LARGE_STRIDE

\* all(b == 0 for b in chunk) or all(b == 0xFF for b in chunk)
blank_chunk(ch) ==
    \/ \A i \in 1..Len(ch) : ch[i] = 0
    \/ \A i \in 1..Len(ch) : ch[i] = 255

\* One of the two sample loops of _validate_addresses: the samples whose cell
\* lies inside the firmware and is not blank.
valid_samples(fw, base, first_code, char_codes, stride) ==
    Cardinality({char_code \in char_codes :
        LET addr == base + (char_code - first_code) * stride
        IN  /\ addr + stride <= fw.len
            /\ ~blank_chunk(fw_slice(fw, addr, addr + stride))})

\* The movw loop of _validate_addresses: the i in range(len - 6) with
\* firmware[i:i+2] == F2 40 and firmware[i+4] == 0x42.  Such an i holds the
\* non-zero byte F2, so it is an address the image stores.
movw_0042_count(fw) ==
    Cardinality({i \in DOMAIN fw.data :
        /\ i < fw.len - 6
        /\ fw_byte(fw, i) = 242 /\ fw_byte(fw, i + 1) = 64
        /\ fw_byte(fw, i + 4) = 66})

validate_addresses(fw, addrs) ==
    [small_font_valid |-> valid_samples(fw, addrs.SMALL_BASE, 0, {65, 66, 67}, SMALL_STRIDE),
     large_font_valid |-> valid_samples(fw, addrs.LARGE_BASE, CJK_START,
                                        {CJK_START, CJK_START + 1, CJK_START + 2}, LARGE_STRIDE),
     movw_0042_count |-> movw_0042_count(fw)]

\* Mutant: a firmware without the MOVW pattern is rejected too.
low_confidence_counts_movw(conf) ==
    conf.small_font_valid < 2 \/ conf.large_font_valid < 2 \/ conf.movw_0042_count = 0

\* main's confidence test
low_confidence(conf) ==
    conf.small_font_valid < 2 \/ conf.large_font_valid < 2

\* sum(sum(r) for r in pixels) and sum(len(r) for r in pixels)
filled_pixels(pix) ==
    Cardinality({rc \in UNION {{<<r, c>> : c \in 1..Len(pix[r])} : r \in 1..Len(pix)} :
                    pix[rc[1]][rc[2]] = 1})
total_pixels(pix) ==
    Cardinality(UNION {{<<r, c>> : c \in 1..Len(pix[r])} : r \in 1..Len(pix)})

\* Mutant: the LARGE bound is used for both tables.
is_valid_font_data_one_bound(pix, ftype) ==
    /\ total_pixels(pix) # 0
    /\ 100 * filled_pixels(pix) > total_pixels(pix)
    /\ 100 * filled_pixels(pix) < 97 * total_pixels(pix)

\* is_valid_font_data: 0.01 < filled / total < 0.97 (LARGE) or 0.95.  The
\* quotient of two integers below 2^53 is rounded to the nearest double, as the
\* literals are, so it compares with a literal n/100 as filled * 100 compares
\* with n * total: equal when these are equal, and otherwise apart by at
\* least 1 / (100 * total).
is_valid_font_data(pix, ftype) ==
    /\ total_pixels(pix) # 0
    /\ 100 * filled_pixels(pix) > total_pixels(pix)
    /\ IF ftype = "LARGE"
       THEN 100 * filled_pixels(pix) < 97 * total_pixels(pix)
       ELSE 100 * filled_pixels(pix) < 95 * total_pixels(pix)

\* The body of extract_font_range's loop for one codepoint: <<>> when the
\* codepoint is passed over, else the file written.  get_lookup raises
\* IndexError past the end of the firmware, which the loop swallows.
extract_glyph(fw, addrs, ftype, unicode_val) ==
    LET addr == IF ftype = "SMALL" THEN unicode_to_small_addr(addrs, unicode_val)
                ELSE unicode_to_large_addr(addrs, unicode_val)
        stride == IF ftype = "SMALL" THEN SMALL_STRIDE ELSE LARGE_STRIDE
        ch == fw_slice(fw, addr, addr + stride)
        lookup_at == addrs.LOOKUP_TABLE + (unicode_val \div 8)
        lookup == fw_byte(fw, lookup_at)
        pix == decode_v8(ch, lookup)
    IN  IF addr < 0 \/ addr + stride > fw.len THEN <<>>
        ELSE IF blank_chunk(ch) THEN <<>>
        ELSE IF lookup_at >= fw.len THEN <<>>
        ELSE IF Len(pix) # 16 THEN <<>>
        ELSE IF ~is_valid_font_data(pix, ftype) THEN <<>>
        ELSE <<[font_type |-> ftype, uni |-> unicode_val, addr |-> addr,
                header |-> lookup % 256, pixels |-> pix]>>

\* Cells of a given fill: -1 is a cell of zero bytes, -2 a cell of FF bytes,
\* and p >= 0 a cell whose 16 words hold p set bits among their bits 15..1,
\* filled from the first word on, every word with bit 0 set or bits 15..1 full.
CellWord(n) == IF n <= 0 THEN 1 ELSE (Pow2(n) - 1) * Pow2(16 - n)
GlyphCell(p, stride) ==
    IF p = -1 THEN Zeros(stride)
    ELSE IF p = -2 THEN [i \in 1..stride |-> 255]
    ELSE [i \in 1..stride |->
             IF i > 32 THEN 144
             ELSE LET w == CellWord(Min(15, p - 15 * ((i - 1) \div 2)))
                  IN  IF i % 2 = 1 THEN w \div 256 ELSE w % 256]

\* The ranges given with --range: RangeLen codepoints from U+0041, and the
\* codepoints from two below U+4E00 to RangeLen - 2 above it.
RangeLen == 3
MainRanges ==
    << <<"Latin", 65, 65 + RangeLen - 1>>,
       <<"CJK", CJK_START - 2, CJK_START - 2 + RangeLen>> >>

\* Fills of the SMALL cells of U+0041.. and of the LARGE cells of U+4DFF..
SmallProfiles == {<<3, 227, 228>>, <<0, 2, 240>>, <<-1, -2, 3>>, <<-1, 94, 1>>}
LargeProfiles == {<<3, 232, 233, 3>>, <<-1, 2, 3, 240>>, <<227, -1, -2, 3>>, <<228, 0, 1, -1>>}
MainSmallBase == 4096
MainLargeBases == {0, 8192}
MovwAt == 12288
MovwCounts == {0, 2}
LookupBytes == {0, 40}
\* Firmware lengths: the lookup bytes of U+4E00.. lie inside or just outside.
MainLengths == {LOOKUP_TABLE + (CJK_START \div 8) + 8, LOOKUP_TABLE + (CJK_START \div 8)}

RECURSIVE PlaceCells(_, _, _, _)
PlaceCells(base, stride, fills, k) ==
    IF k > Len(fills) THEN <<>>
    ELSE (IF base + (k - 1) * stride >= 0
          THEN Place(base + (k - 1) * stride, GlyphCell(fills[k], stride))
          ELSE <<>>)
         @@ PlaceCells(base, stride, fills, k + 1)

MainFirmware(small, large, large_base, lookup, movws, len) ==
    [len |-> len,
     data |-> Place(120, pack_H(MainSmallBase % 65536) \o pack_H(MainSmallBase \div 65536))
              @@ Place(128, pack_I(large_base) \o pack_I(len - large_base))
              @@ PlaceCells(MainSmallBase + 65 * SMALL_STRIDE, SMALL_STRIDE, small, 1)
              @@ PlaceCells(large_base - LARGE_STRIDE, LARGE_STRIDE, large, 1)
              @@ [a \in {MovwAt + 8 * j : j \in 0..(movws - 1)} |-> 242]
              @@ [a \in {MovwAt + 8 * j + 1 : j \in 0..(movws - 1)} |-> 64]
              @@ [a \in {MovwAt + 8 * j + 4 : j \in 0..(movws - 1)} |-> 66]
              @@ [a \in {b \in (LOOKUP_TABLE + (65 \div 8))..(LOOKUP_TABLE + (CJK_START \div 8) + 1) :
                            b < len} |-> lookup]]
MainFirmwares ==
    {MainFirmware(small, large, large_base, lookup, movws, len) :
        small \in SmallProfiles, large \in LargeProfiles, large_base \in MainLargeBases,
        lookup \in LookupBytes, movws \in MovwCounts, len \in MainLengths}

\* main after search_offset_table has returned large_base, a cell address of
\* the partition, to detect_addresses.
MainInit ==
    /\ pc = "validate"
    /\ firmware \in MainFirmwares
    /\ addresses = [SMALL_BASE |-> detect_small_base(firmware),
                    LARGE_BASE |-> get_firmware_partition(firmware).offset,
                    LOOKUP_TABLE |-> LOOKUP_TABLE]
    /\ confidence = <<>>
    /\ verify_only \in BOOLEAN
    /\ unicode_ranges = MainRanges
    /\ range_idx = 0 /\ font_type = None /\ uni = 0
    /\ range_calls = <<>> /\ glyph_files = <<>>
    /\ ScoreIdle /\ SearchIdle
    /\ IdleExceptFont

\* results['confidence'] = self._validate_addresses(results)
ValidateAddresses ==
    /\ pc = "validate"
    /\ confidence' = validate_addresses(firmware, addresses)
    /\ pc' = "report"
    /\ UNCHANGED <<firmware, scoreVars, searchVars, addresses, verify_only, unicode_ranges,
                   range_idx, font_type, uni, range_calls, glyph_files, exceptFont>>

\* The report is printed and the validity counts are tested: sys.exit(1).
CheckConfidence ==
    /\ pc = "report"
    /\ pc' = IF low_confidence(confidence) THEN "exit_1" ELSE "confident"
    /\ UNCHANGED <<firmware, scoreVars, searchVars, mainVars, exceptFont>>

\* if args.verify_only: sys.exit(0); else the extractor is built and
\* extract_all entered.
CheckVerifyOnly ==
    /\ pc = "confident"
    /\ pc' = IF verify_only THEN "exit_0" ELSE "extract_all"
    /\ range_idx' = IF verify_only THEN range_idx ELSE 1
    /\ UNCHANGED <<firmware, scoreVars, searchVars, addresses, confidence, verify_only,
                   unicode_ranges, font_type, uni, range_calls, glyph_files, exceptFont>>

\* extract_all calls extract_font_range: SMALL first, then LARGE, for the
\* range at range_idx.
CallExtractFontRange ==
    /\ pc = "extract_all"
    /\ range_idx <= Len(unicode_ranges)
    /\ LET ftype == IF font_type = None THEN "SMALL" ELSE "LARGE"
       IN  /\ font_type' = ftype
           /\ range_calls' = Append(range_calls,
                  [font_type |-> ftype, name |-> unicode_ranges[range_idx][1],
                   start |-> unicode_ranges[range_idx][2], end |-> unicode_ranges[range_idx][3]])
    /\ uni' = unicode_ranges[range_idx][2]
    /\ pc' = "in_range"
    /\ UNCHANGED <<firmware, scoreVars, searchVars, addresses, confidence, verify_only,
                   unicode_ranges, range_idx, glyph_files, exceptFont>>

\* One iteration of "for uni in range(start, end + 1)".
ExtractGlyph ==
    /\ pc = "in_range"
    /\ uni <= unicode_ranges[range_idx][3]
    /\ glyph_files' = glyph_files \o
           [k \in 1..Len(extract_glyph(firmware, addresses, font_type, uni)) |->
               [call |-> Len(range_calls), file |-> extract_glyph(firmware, addresses, font_type, uni)[k]]]
    /\ uni' = uni + 1
    /\ UNCHANGED <<pc, firmware, scoreVars, searchVars, addresses, confidence, verify_only,
                   unicode_ranges, range_idx, font_type, range_calls, exceptFont>>

\* extract_font_range returns to extract_all.
ReturnFromRange ==
    /\ pc = "in_range"
    /\ uni > unicode_ranges[range_idx][3]
    /\ pc' = "extract_all"
    /\ font_type' = IF font_type = "LARGE" THEN None ELSE font_type
    /\ range_idx' = IF font_type = "LARGE" THEN range_idx + 1 ELSE range_idx
    /\ UNCHANGED <<firmware, scoreVars, searchVars, addresses, confidence, verify_only,
                   unicode_ranges, uni, range_calls, glyph_files, exceptFont>>

\* The ranges are exhausted: extract_all prints the totals and returns.
ExtractAllDone ==
    /\ pc = "extract_all"
    /\ range_idx > Len(unicode_ranges)
    /\ pc' = "done"
    /\ UNCHANGED <<firmware, scoreVars, searchVars, mainVars, exceptFont>>

MainNext ==
    \/ ValidateAddresses \/ CheckConfidence \/ CheckVerifyOnly
    \/ CallExtractFontRange \/ ExtractGlyph \/ ReturnFromRange \/ ExtractAllDone
SpecMain == MainInit /\ [][MainNext]_vars

\* The confidence report has been computed.
Validated == pc \notin {"validate"}
\* main went past its confidence test / left through it.
Accepted == pc \in {"confident", "exit_0", "extract_all", "in_range", "done"}
Rejected == pc = "exit_1"

\* C16: no extract_font_range call is made and no glyph is written unless the
\* confidence report has been computed with small_font_valid >= 2 and
\* large_font_valid >= 2 and --verify-only is off; and main goes past its
\* confidence test exactly when both counts are at least 2, whatever
\* movw_0042_count is.
C16_ExtractionGated ==
    /\ (range_calls # <<>> \/ glyph_files # <<>> \/ pc \in {"extract_all", "in_range", "done"}) =>
           /\ Validated
           /\ confidence.small_font_valid >= 2
           /\ confidence.large_font_valid >= 2
           /\ ~verify_only
    /\ Accepted => (confidence.small_font_valid >= 2 /\ confidence.large_font_valid >= 2)
    /\ Rejected => (confidence.small_font_valid < 2 \/ confidence.large_font_valid < 2)

\* A firmware without any MOVW #0x0042 has passed the test with three valid
\* samples of each table, and a glyph has been written.
C16_Witness ==
    /\ pc = "done"
    /\ confidence = [small_font_valid |-> 3, large_font_valid |-> 3, movw_0042_count |-> 0]
    /\ glyph_files # <<>>

\* The files written so far by the passes of one table.
FilesOf(ftype) ==
    {glyph_files[k].file : k \in {j \in 1..Len(glyph_files) : glyph_files[j].file.font_type = ftype}}

\* C17 as stated: a LARGE glyph is written only for u >= 0x4E00, from address
\* LARGE_BASE + (u - 0x4E00) * 33, and a SMALL glyph from SMALL_BASE + u * 32.
C17_AsStated ==
    /\ \A f \in FilesOf("LARGE") :
           /\ f.uni >= CJK_START
           /\ f.addr = addresses.LARGE_BASE + (f.uni - CJK_START) * LARGE_STRIDE
    /\ \A f \in FilesOf("SMALL") :
           f.addr = addresses.SMALL_BASE + f.uni * SMALL_STRIDE

\* The codepoints extract_font_range call k has been through.
Processed(k) ==
    {u \in range_calls[k].start..range_calls[k].end :
        k < Len(range_calls) \/ pc # "in_range" \/ u < uni}
CellOf(k, u) ==
    LET ftype == range_calls[k].font_type
        addr == IF ftype = "SMALL" THEN addresses.SMALL_BASE + u * 32
                ELSE addresses.LARGE_BASE + (u - CJK_START) * 33
        stride == IF ftype = "SMALL" THEN 32 ELSE 33
    IN  [addr |-> addr, stride |-> stride,
         inside |-> addr >= 0 /\ addr + stride <= firmware.len,
         bytes |-> [i \in 1..stride |-> fw_byte(firmware, addr + i - 1)]]
\* The cell of codepoint u is decoded: it lies in the firmware, is not blank
\* and the codepoint's lookup byte can be read.
Decoded(k, u) ==
    /\ CellOf(k, u).inside
    /\ \E i \in 1..CellOf(k, u).stride : CellOf(k, u).bytes[i] # 0
    /\ \E i \in 1..CellOf(k, u).stride : CellOf(k, u).bytes[i] # 255
    /\ LOOKUP_TABLE + (u \div 8) < firmware.len
\* The set bits of the decoded grid: bits 15..1 of the 16 big-endian words.
Popcount(k, u) ==
    LET b == CellOf(k, u).bytes
    IN  Cardinality({wb \in (1..16) \X (1..15) :
            ((b[2 * wb[1] - 1] * 256 + b[2 * wb[1]]) \div Pow2(wb[2])) % 2 = 1})
Emitted(k, u) ==
    \E j \in 1..Len(glyph_files) : glyph_files[j].call = k /\ glyph_files[j].file.uni = u

\* C18: a decoded glyph is written iff its popcount is in 3..232 (LARGE) or
\* 3..227 (SMALL); a glyph that is not decoded is not written, and no written
\* grid is all zero or all one.
C18_EmittedIffFillInBand ==
    /\ \A k \in 1..Len(range_calls) : \A u \in Processed(k) :
           Emitted(k, u) <=>
               /\ Decoded(k, u)
               /\ 3 <= Popcount(k, u)
               /\ Popcount(k, u) <= (IF range_calls[k].font_type = "LARGE" THEN 232 ELSE 227)
    /\ \A j \in 1..Len(glyph_files) :
           /\ filled_pixels(glyph_files[j].file.pixels) # 0
           /\ filled_pixels(glyph_files[j].file.pixels) # 240

\* SMALL cells of 3, 227 and 228 set bits and LARGE cells of 232 and 233 have
\* been decoded: those of 3, 227 and 232 were written, the two others not.
C18_Witness ==
    /\ pc = "done"
    /\ Decoded(1, 65) /\ Popcount(1, 65) = 3 /\ Emitted(1, 65)
    /\ Decoded(1, 66) /\ Popcount(1, 66) = 227 /\ Emitted(1, 66)
    /\ Decoded(1, 67) /\ Popcount(1, 67) = 228 /\ ~Emitted(1, 67)
    /\ Decoded(4, CJK_START) /\ Popcount(4, CJK_START) = 232 /\ Emitted(4, CJK_START)
    /\ Decoded(4, CJK_START + 1) /\ Popcount(4, CJK_START + 1) = 233 /\ ~Emitted(4, CJK_START + 1)


(***************************************************************************)
(* Resource extraction: the loop of extract_part5_bitmaps_smart            *)
(***************************************************************************)
MAX_DIMENSION == 10000

\* c.isalnum() or c in "._-(), " on ASCII
safe_char(c) ==
    \/ 48 <= c /\ c <= 57
    \/ 65 <= c /\ c <= 90
    \/ 97 <= c /\ c <= 122
    \/ c \in {46, 95, 45, 40, 41, 44, 32}

\* str.strip() of a string whose only whitespace is the space
strip(name) ==
    LET kept == {k \in 1..Len(name) : name[k] # 32}
    IN  IF kept = {} THEN <<>>
        ELSE SubSeq(name, CHOOSE a \in kept : \A k \in kept : a <= k,
                          CHOOSE b \in kept : \A k \in kept : k <= b)

\* sanitize_filename: '/' and '\' become '_', as every other unsafe character
sanitize_filename(original_name) ==
    strip([k \in 1..Len(original_name) |->
              IF safe_char(original_name[k]) THEN original_name[k] ELSE 95])

\* safe_name.lower().endswith('.bmp')
lower(name) == [k \in 1..Len(name) |-> IF 65 <= name[k] /\ name[k] <= 90 THEN name[k] + 32 ELSE name[k]]
output_name(name) ==
    LET safe_name == sanitize_filename(name)
        low == lower(safe_name)
    IN  IF Len(low) >= 4 /\ SubSeq(low, Len(low) - 3, Len(low)) = <<46, 98, 109, 112>>
        THEN safe_name
        ELSE safe_name \o <<46, 98, 109, 112>>

end_index_of(meta, shift) == Len(meta) - (IF shift > 0 THEN 1 ELSE 0)

\* The offset source: <<>> when the iteration is left with continue, else
\* the offset (i is the 0-based Python index).
offset_source(meta, shift, i) ==
    IF shift > 0
    THEN IF i + shift >= Len(meta) THEN <<>> ELSE <<meta[i + shift + 1].offset>>
    ELSE IF shift < 0
    THEN IF i + shift < 0 THEN <<>> ELSE <<meta[i + shift + 1].offset>>
    ELSE <<meta[i + 1].offset>>

\* Mutant: the size is read from the entry itself.
size_source_own_entry(meta, i) ==
    [width |-> meta[i + 1].width, height |-> meta[i + 1].height]

\* The size source: the next entry, or the entry itself when it is the last.
size_source(meta, i) ==
    IF i + 1 < Len(meta)
    THEN [width |-> meta[i + 2].width, height |-> meta[i + 2].height]
    ELSE [width |-> meta[i + 1].width, height |-> meta[i + 1].height]

\* Mutant: an offset of 0 is extracted.
skip_item_keeps_offset_zero(offset, w, h, len) ==
    \/ offset >= len
    \/ w <= 0 \/ h <= 0 \/ w > MAX_DIMENSION \/ h > MAX_DIMENSION

\* The two tests that leave the iteration with continue.
skip_item(offset, w, h, len) ==
    \/ offset = 0 \/ offset >= len
    \/ w <= 0 \/ h <= 0 \/ w > MAX_DIMENSION \/ h > MAX_DIMENSION

\* Part 5 images: a ROCK26 header, 16 bytes of pixels and the metadata table.
\* An entry is given as <<offset, width, height, name>>, the offsets -1 and
\* -2 standing for the image's length less 2 and the image's length.
PIXELS_AT == 48
ResPixels == [k \in 1..16 |-> 16 * k + 1]
ResolveOffset(o, len) == IF o = -1 THEN len - 2 ELSE IF o = -2 THEN len ELSE o
ResPart5(tbl) ==
    LET len == PIXELS_AT + Len(ResPixels) + METADATA_ENTRY_SIZE * Len(tbl)
    IN  Rock26Header \o ResPixels
        \o Flatten([k \in 1..Len(tbl) |->
               MetaEntry(ResolveOffset(tbl[k][1], len), tbl[k][2], tbl[k][3], tbl[k][4])])

MaxResEntries == 3
ResEntryKinds ==
    {<<50, 2, 2, <<65, 46, 66, 77, 80>> >>,          \* 'A.BMP'
     <<0, 1, 3, <<98, 47, 49>> >>,                   \* 'b/1'
     <<-1, 0, 1, <<32, 67, 46, 98, 109, 112>> >>,    \* ' C.bmp'
     <<-2, 1, 10001, <<68, 42, 46, 66, 77, 80>> >>}  \* 'D*.BMP'
ResBoundaryTables ==
    {<< <<50, 1, 1, <<69, 46, 66, 77, 80>> >>, <<52, 10000, 1, <<70, 46, 66, 77, 80>> >>,
        <<54, 3, 1, <<71, 46, 66, 77, 80>> >>, <<-1, 1, 2, <<72, 46, 66, 77, 80>> >>,
        <<0, 2, 1, <<73, 46, 66, 77, 80>> >> >>,
     << <<50, 5, 0, <<74, 46, 66, 77, 80>> >>, <<52, 1, 3, <<75, 46, 66, 77, 80>> >>,
        <<54, 10001, 1, <<76, 46, 66, 77, 80>> >>, <<56, 2, 1, <<77, 46, 66, 77, 80>> >> >>}
ResTables == (SeqsUpTo(ResEntryKinds, MaxResEntries) \ {<<>>}) \cup ResBoundaryTables

\* What detect_offset_misalignment can return for a table of n entries: from
\* the vote, (0, 0), (s, 1) for s in 1..3 and (s, 1 - s) for s in -3..-1; from
\* the fallback, (j - 1, 1) for the index j of the first entry matching the
\* first ROCK26 offset, which the vote leaves to the fallback only for
\* j > 3, and (0, 0).  A shift s > 0 needs an entry at index s.
DetectionResults(n) ==
    {<<0, 0>>}
    \cup {<<s, 1>> : s \in {t \in 1..MAX_SHIFT : t < n}}
    \cup {<<-s, 1 + s>> : s \in 1..MAX_SHIFT}
    \cup {<<j - 1, 1>> : j \in (MAX_SHIFT + 1)..(n - 1)}

ResInit ==
    /\ pc = "extracting"
    /\ \E tbl \in ResTables :
           /\ part5_data = ResPart5(tbl)
           /\ parsed_entries = parse_metadata_table_part5(ResPart5(tbl), PIXELS_AT + Len(ResPixels), <<>>)
           /\ metadata_entries = parse_metadata_table_part5(ResPart5(tbl), PIXELS_AT + Len(ResPixels), <<>>)
           /\ \E det \in DetectionResults(Len(tbl)) :
                  /\ misalignment = det[1]
                  /\ first_valid_entry = det[2]
                  /\ entry_idx = det[2]
    /\ rock26_offset = 0
    /\ matching_positions = {}
    /\ table_start = <<PIXELS_AT + Len(ResPixels)>>
    /\ rock26_table = <<>> /\ rock26_idx = 0
    /\ offset_shift_votes = [keys |-> <<>>, val |-> <<>>]
    /\ conclusion = None
    /\ written_files = <<>> /\ success_count = 0 /\ error_count = 0 /\ pass_result = <<>>
    /\ DecodeIdle /\ BmpIdle /\ MonoIdle /\ FontIdle /\ OutIdle /\ DrvIdle /\ CatIdle

\* One iteration of "for i in range(start_index, end_index)".
ExtractEntry ==
    /\ pc = "extracting"
    /\ entry_idx < end_index_of(metadata_entries, misalignment)
    /\ LET entry == metadata_entries[entry_idx + 1]
           offset == offset_source(metadata_entries, misalignment, entry_idx)
           size == size_source(metadata_entries, entry_idx)
           raw_size == size.width * size.height * 2
           skipped == \/ offset = <<>>
                      \/ skip_item(offset[1], size.width, size.height, Len(part5_data))
           bmp_data == convert_to_bmp(Slice(part5_data, offset[1], offset[1] + raw_size),
                                      size.width, size.height)
       IN  IF skipped
           THEN UNCHANGED <<written_files, success_count, error_count>>
           ELSE IF bmp_data # None
           THEN /\ written_files' = Append(written_files,
                       [i |-> entry_idx, name |-> entry.name, file |-> output_name(entry.name),
                        offset |-> offset[1], width |-> size.width, height |-> size.height,
                        data |-> bmp_data])
                /\ success_count' = success_count + 1
                /\ UNCHANGED error_count
           ELSE /\ error_count' = error_count + 1
                /\ UNCHANGED <<written_files, success_count>>
    /\ entry_idx' = entry_idx + 1
    /\ UNCHANGED <<pc, pass_result, exceptRes>>

\* The loop has ended: the result dict is returned.
ReturnResult ==
    /\ pc = "extracting"
    /\ entry_idx >= end_index_of(metadata_entries, misalignment)
    /\ pc' = "done"
    /\ pass_result' = [total |-> end_index_of(metadata_entries, misalignment) - first_valid_entry,
                       success |-> success_count, error |-> error_count,
                       misalignment |-> misalignment]
    /\ UNCHANGED <<entry_idx, written_files, success_count, error_count, exceptRes>>

ResNext == ExtractEntry \/ ReturnResult
SpecResExtract == ResInit /\ [][ResNext]_vars

\* The table and the shift as the claims name them (indices 0-based).
MetaLen == Len(metadata_entries)
Meta(i) == metadata_entries[i + 1]
\* The indices the loop has been through.
Iterated ==
    {i \in first_valid_entry..(MetaLen - (IF misalignment > 0 THEN 1 ELSE 0) - 1) : i < entry_idx}
ShiftedInRange(i) == 0 <= i + misalignment /\ i + misalignment < MetaLen
WrittenFor(i) == {k \in 1..Len(written_files) : written_files[k].i = i}

\* C19: every file written is written for one iterated index i, once, with
\* the name of metadata[i], the offset of metadata[i + shift] and the width and
\* height of metadata[i + 1], or of metadata[i] when i is the last index; no
\* file is written for an i whose i + shift is outside the table.
C19_SourcesByIndex ==
    /\ \A k \in 1..Len(written_files) :
           LET f == written_files[k]
           IN  /\ f.i \in Iterated
               /\ WrittenFor(f.i) = {k}
               /\ ShiftedInRange(f.i)
               /\ f.name = Meta(f.i).name
               /\ f.file = output_name(Meta(f.i).name)
               /\ f.offset = Meta(f.i + misalignment).offset
               /\ IF f.i + 1 < MetaLen
                  THEN f.width = Meta(f.i + 1).width /\ f.height = Meta(f.i + 1).height
                  ELSE f.width = Meta(f.i).width /\ f.height = Meta(f.i).height
    /\ \A i \in Iterated : ~ShiftedInRange(i) => WrittenFor(i) = {}
    /\ pc = "done" => entry_idx >= MetaLen - (IF misalignment > 0 THEN 1 ELSE 0)

\* Under a shift of +2 on a table of five entries, the file of index 1 has
\* been written with the offset of entry 3 and the size of entry 2, both
\* different from its own, and index 3, whose shifted index is 5, was passed.
C19_Witness ==
    /\ pc = "done"
    /\ misalignment = 2 /\ MetaLen = 5
    /\ Iterated = {1, 2, 3}
    /\ WrittenFor(1) # {} /\ WrittenFor(3) = {}
    /\ Meta(3).offset # Meta(1).offset
    /\ Meta(2).width # Meta(1).width

\* The raw slice of a file: part5[offset .. offset + 2*W*H], zero-padded.
PaddedSlice(offset, w, h) ==
    [k \in 1..(2 * w * h) |-> IF offset + k <= Len(part5_data) THEN part5_data[offset + k] ELSE 0]
Acceptable(offset, w, h) ==
    /\ offset # 0 /\ offset < Len(part5_data)
    /\ 0 < w /\ w <= 10000
    /\ 0 < h /\ h <= 10000
SizeFor(i) == IF i + 1 < MetaLen THEN Meta(i + 1) ELSE Meta(i)

\* C20: a file is written for an iterated item exactly when its offset is
\* not 0 and below |part5| and its width and height are in 1..10000, and the
\* file is the BMP of part5[offset .. offset + 2*W*H], zero-padded to 2*W*H
\* bytes.
C20_AcceptedItems ==
    /\ \A i \in {j \in Iterated : ShiftedInRange(j)} :
           (WrittenFor(i) # {}) <=>
               Acceptable(Meta(i + misalignment).offset, SizeFor(i).width, SizeFor(i).height)
    /\ \A k \in 1..Len(written_files) :
           LET f == written_files[k]
           IN  /\ Acceptable(f.offset, f.width, f.height)
               /\ f.data = create_bmp_header(f.width, f.height)
                           \o restride_to_bmp(swap_bytes_16bit(PaddedSlice(f.offset, f.width, f.height)),
                                              f.width, f.height)

\* A file 10000 pixels wide has been written, and a file whose slice starts
\* two bytes before the end of part5 (its last four bytes are padding); the
\* item whose offset is 0 was passed.
C20_Witness ==
    /\ pc = "done"
    /\ misalignment = 0 /\ MetaLen = 5
    /\ \E k \in WrittenFor(0) : written_files[k].width = 10000
    /\ \E k \in WrittenFor(3) :
           /\ written_files[k].offset = Len(part5_data) - 2
           /\ written_files[k].width * written_files[k].height * 2 = 4
    /\ Meta(4).offset = 0 /\ 4 \in Iterated /\ WrittenFor(4) = {}


\* The indices the loop goes through in a whole pass.
AllIterated ==
    first_valid_entry..(MetaLen - (IF misalignment > 0 THEN 1 ELSE 0) - 1)

\* C21 as stated: every item the resource loop passes over is counted, so
\* that at the end of the pass success + error is the number of items
\* iterated.
C21_AsStated ==
    pc = "done" =>
        pass_result.success + pass_result.error = Cardinality(AllIterated)

\* C30 as stated: the statistics returned satisfy 0 <= success + error <=
\* total, total = end_index - start_index is never negative, and error is 0.
C30_AsStated ==
    pc = "done" =>
        /\ 0 <= pass_result.success + pass_result.error
        /\ pass_result.success + pass_result.error <= pass_result.total
        /\ pass_result.total >= 0
        /\ pass_result.error = 0

(***************************************************************************)
(* The file writes, statement by statement: FontExtractor.write_bmp and    *)
(* the "with open(output_file, 'wb')" of extract_part5_bitmaps_smart       *)
(***************************************************************************)
\* The arguments of the f.write calls of write_bmp, in order: sixteen header
\* fields, two palette entries, one row per y from height - 1 down to 0.
write_bmp_calls(pix, w, h) ==
    LET bfOffBits == 62
        biSizeImage == ((w + 31) \div 32) * 4 * h
        file_size == bfOffBits + biSizeImage
    IN  <<pack_H(19778), pack_I(file_size), pack_H(0), pack_H(0), pack_I(bfOffBits),
          pack_I(40), pack_i(w), pack_i(h), pack_H(1), pack_H(1), pack_I(0),
          pack_I(biSizeImage), pack_i(2835), pack_i(2835), pack_I(2), pack_I(2),
          <<255, 255, 255, 0>>, <<0, 0, 0, 0>>>>
        \o [k \in 1..h |-> mono_row(pix, h - k, w)]

\* The one f.write(bmp_data) of the resource loop
resource_calls(bmp_data) == <<bmp_data>>

\* Glyphs and resources written: three glyph grids; the BMPs of 1x1 .. 2x2
\* resources whose raw data is complete or missing.
WriterGrids ==
    {GridOf(pat, "rect", GLYPH_HEIGHT, GLYPH_WIDTH) :
        pat \in {<<"white", 0, 0>>, <<"checker", 0, 0>>, <<"single", 8, 3>>}}
WriterResources ==
    {convert_to_bmp(raw, w, h) :
        raw \in {<<>>, <<31, 0, 224, 7, 0, 248, 255, 255>>}, w \in 1..2, h \in 1..2}

\* Before "with open(...)": the BMP's path does not exist.
OutInit ==
    /\ pc = "start"
    /\ \/ /\ writer = "glyph"
          /\ \E g \in WriterGrids : write_queue = write_bmp_calls(g, GLYPH_WIDTH, GLYPH_HEIGHT)
       \/ /\ writer = "resource"
          /\ \E b \in WriterResources : write_queue = resource_calls(b)
    /\ file_buffer = <<>>
    /\ disk_file = <<>>
    /\ IdleExceptOut

\* open(path, 'wb'): the file is created empty.
OpenFile ==
    /\ pc = "start"
    /\ pc' = "open"
    /\ disk_file' = <<<<>>>>
    /\ UNCHANGED <<writer, write_queue, file_buffer, exceptOut>>

\* The next f.write(...): the bytes go to the file object.
WriteCall ==
    /\ pc = "open"
    /\ write_queue # <<>>
    /\ file_buffer' = file_buffer \o Head(write_queue)
    /\ write_queue' = Tail(write_queue)
    /\ UNCHANGED <<pc, writer, disk_file, exceptOut>>

\* The end of the with block: the file is closed, what was written is in it.
CloseFile ==
    /\ pc = "open"
    /\ write_queue = <<>>
    /\ pc' = "closed"
    /\ disk_file' = <<file_buffer>>
    /\ UNCHANGED <<writer, write_queue, file_buffer, exceptOut>>

\* The writer is cancelled at the current statement: by an exception, which
\* leaves the with block through its exit and closes the file, or by the end
\* of the process, which leaves the file as it is on disk.
Cancel ==
    /\ pc \in {"start", "open"}
    /\ pc' = "cancelled"
    /\ \E unwinds \in BOOLEAN :
           disk_file' = IF unwinds /\ pc = "open" THEN <<file_buffer>> ELSE disk_file
    /\ UNCHANGED <<writer, write_queue, file_buffer, exceptOut>>

OutNext == OpenFile \/ WriteCall \/ CloseFile \/ Cancel
SpecWriters == OutInit /\ [][OutNext]_vars

\* A BMP whose length is the file size its header declares
CompleteBmp(content) == Len(content) >= 6 /\ Len(content) = unpack_I(content, 2)

\* A file that was closed at the end of its with block is whole, and a
\* glyph's is what write_bmp writes.
ClosedFileIsWhole ==
    pc = "closed" =>
        /\ CompleteBmp(disk_file[1])
        /\ writer = "glyph" =>
               \E g \in WriterGrids : disk_file[1] = write_bmp(g, GLYPH_WIDTH, GLYPH_HEIGHT)

\* C24 as stated: the writers are all-or-nothing: when the writer has been
\* cancelled, at whatever step, a BMP file that exists is complete (126
\* bytes for a glyph, the header's file_size for a resource).
C24_AsStated ==
    (pc = "cancelled" /\ disk_file # <<>>) =>
        /\ CompleteBmp(disk_file[1])
        /\ writer = "glyph" => Len(disk_file[1]) = 126

(***************************************************************************)
(* Batch drivers: the module body of extract_all_versions.py and main of   *)
(* extract_resource_smart.py.  A path is the sequence of its components.   *)
(***************************************************************************)
OUTPUT_BASE == "extracted_font_all_versions"

\* os.path.dirname / os.path.basename, Path.parent / Path.name
dirname(p) == SubSeq(p, 1, Len(p) - 1)
basename(p) == p[Len(p)]

\* The names of the modelled trees, in code point order.
NameOrder == <<"HIFIEC10.IMG", "HIFIEC20.IMG", "OTHER.IMG", "V1", "V2", "a", "b", "firmwares">>
Rank(name) == CHOOSE i \in 1..Len(NameOrder) : NameOrder[i] = name
\* p < q for two paths; no modelled path is a prefix of another
path_less(p, q) ==
    \E i \in 1..Min(Len(p), Len(q)) :
        /\ \A j \in 1..(i - 1) : p[j] = q[j]
        /\ Rank(p[i]) < Rank(q[i])
\* (version, path) < (version, path) for two tuples of firmware_dirs
item_less(a, b) ==
    \/ Rank(a.version) < Rank(b.version)
    \/ a.version = b.version /\ path_less(a.path, b.path)
RECURSIVE sorted_items(_)
sorted_items(S) ==
    IF S = {} THEN <<>>
    ELSE LET m == CHOOSE m \in S : \A o \in S \ {m} : item_less(m, o)
         IN  <<m>> \o sorted_items(S \ {m})
RECURSIVE sorted_paths(_)
sorted_paths(S) ==
    IF S = {} THEN <<>>
    ELSE LET m == CHOOSE m \in S : \A o \in S \ {m} : path_less(m, o)
         IN  <<m>> \o sorted_paths(S \ {m})

\* fnmatch of a file name against HIFIEC*.IMG and against *.IMG
matches_hifiec(name) == name \in {"HIFIEC10.IMG", "HIFIEC20.IMG"}
matches_img(name) == name \in {"HIFIEC10.IMG", "HIFIEC20.IMG", "OTHER.IMG"}

\* firmware_dirs of extract_all_versions.py for the files of a tree: the two
\* globs, set() and sorted().
firmware_dirs(tree) ==
    sorted_items(
        {[version |-> basename(dirname(p)), path |-> p] :
            p \in {q \in tree : Len(q) = 3 /\ q[1] = "firmwares" /\ matches_hifiec(basename(q))}}
        \cup
        {[version |-> basename(dirname(dirname(p))), path |-> p] :
            p \in {q \in tree : Len(q) = 4 /\ q[1] = "firmwares" /\ matches_hifiec(basename(q))}})

\* img_files of main, each with extract_part5_bitmaps_smart's version.
img_files_of(tree) ==
    LET found == sorted_paths({q \in tree : q[1] = "firmwares" /\ matches_img(basename(q))})
    IN  [k \in 1..Len(found) |-> [version |-> basename(dirname(found[k])), path |-> found[k]]]

\* os.path.join(OUTPUT_BASE, version); Path(output_base) / batch / version
output_dir_of(drv, version) ==
    IF drv = "fonts" THEN <<OUTPUT_BASE, version>>
    ELSE <<"extracted_bitmaps_smart", "batch_timestamp", version>>

\* Trees: two image files, each in firmwares/, in a version directory or in a
\* subdirectory of one.
TreeFiles == {"HIFIEC10.IMG", "HIFIEC20.IMG", "OTHER.IMG"}
TreePaths ==
    {<<"firmwares", f>> : f \in TreeFiles}
    \cup {<<"firmwares", v, f>> : v \in {"V1", "V2"}, f \in TreeFiles}
    \cup {<<"firmwares", v, s, f>> : v \in {"V1", "V2"}, s \in {"a", "b"}, f \in TreeFiles}
Trees == {t \in SUBSET TreePaths : Cardinality(t) = 2}

DrvInit ==
    /\ pc = "processing"
    /\ driver \in {"fonts", "bitmaps"}
    /\ \E tree \in Trees :
           img_files = IF driver = "fonts" THEN firmware_dirs(tree) ELSE img_files_of(tree)
    /\ img_idx = 0
    /\ output_dirs = <<>>
    /\ IdleExceptDrv

\* One iteration of the driver's loop: the image's output directory is
\* computed and the extraction writes into it.
ProcessImage ==
    /\ pc = "processing"
    /\ img_idx < Len(img_files)
    /\ img_idx' = img_idx + 1
    /\ output_dirs' = Append(output_dirs,
                             [path |-> img_files[img_idx + 1].path,
                              dir |-> output_dir_of(driver, img_files[img_idx + 1].version)])
    /\ UNCHANGED <<pc, driver, img_files, exceptDrv>>

\* The loop is over: the summary is printed.
DriverDone ==
    /\ pc = "processing"
    /\ img_idx = Len(img_files)
    /\ pc' = "done"
    /\ UNCHANGED <<driver, img_files, img_idx, output_dirs, exceptDrv>>

DrvNext == ProcessImage \/ DriverDone
SpecDrivers == DrvInit /\ [][DrvNext]_vars

\* C23 as stated: two distinct firmware images processed by a driver write
\* into different output directories.
C23_AsStated ==
    \A i, j \in 1..Len(output_dirs) :
        output_dirs[i].path # output_dirs[j].path => output_dirs[i].dir # output_dirs[j].dir

(***************************************************************************)
(* The Unicode range catalogue: UNICODE_RANGES of extract_all_versions.py, *)
(* passed as --range arguments, and FontExtractor.UNICODE_RANGES           *)
(***************************************************************************)
\* UNICODE_RANGES of extract_all_versions.py
BATCH_UNICODE_RANGES ==
    <<<<"Basic_Latin", 0, 127>>, <<"Latin_1_Supplement", 128, 255>>,
      <<"Latin_Extended_A", 256, 383>>, <<"Latin_Extended_B", 384, 591>>,
      <<"IPA_Extensions", 592, 687>>, <<"Spacing_Modifier", 688, 767>>,
      <<"Combining_Diacritics", 768, 879>>, <<"Greek_Coptic", 880, 1023>>,
      <<"Cyrillic", 1024, 1279>>, <<"Cyrillic_Supplement", 1280, 1327>>,
      <<"Armenian", 1328, 1423>>, <<"Hebrew", 1424, 1535>>,
      <<"Arabic", 1536, 1791>>, <<"Syriac", 1792, 1871>>,
      <<"Arabic_Supplement", 1872, 1919>>, <<"Thaana", 1920, 1983>>,
      <<"NKo", 1984, 2047>>, <<"Samaritan", 2048, 2111>>,
      <<"Mandaic", 2112, 2143>>, <<"Arabic_Extended_B", 2160, 2207>>,
      <<"Arabic_Extended_A", 2208, 2303>>, <<"Devanagari", 2304, 2431>>,
      <<"Bengali", 2432, 2559>>, <<"Gurmukhi", 2560, 2687>>,
      <<"Gujarati", 2688, 2815>>, <<"Oriya", 2816, 2943>>,
      <<"Tamil", 2944, 3071>>, <<"Telugu", 3072, 3199>>,
      <<"Kannada", 3200, 3327>>, <<"Malayalam", 3328, 3455>>,
      <<"Sinhala", 3456, 3583>>, <<"Thai", 3584, 3711>>, <<"Lao", 3712, 3839>>,
      <<"Tibetan", 3840, 4095>>, <<"Myanmar", 4096, 4255>>,
      <<"Georgian", 4256, 4351>>, <<"Hangul_Jamo", 4352, 4607>>,
      <<"Ethiopic", 4608, 4991>>, <<"Ethiopic_Supplement", 4992, 5023>>,
      <<"Cherokee", 5024, 5119>>, <<"UCAS", 5120, 5759>>,
      <<"Ogham", 5760, 5791>>, <<"Runic", 5792, 5887>>,
      <<"Tagalog", 5888, 5919>>, <<"Hanunoo", 5920, 5951>>,
      <<"Buhid", 5952, 5983>>, <<"Tagbanwa", 5984, 6015>>,
      <<"Khmer", 6016, 6143>>, <<"Mongolian", 6144, 6319>>,
      <<"UCAS_Extended", 6320, 6399>>, <<"Limbu", 6400, 6479>>,
      <<"Tai_Le", 6480, 6527>>, <<"New_Tai_Lue", 6528, 6623>>,
      <<"Khmer_Symbols", 6624, 6655>>, <<"Buginese", 6656, 6687>>,
      <<"Tai_Tham", 6688, 6831>>, <<"Balinese", 6912, 7039>>,
      <<"Sundanese", 7040, 7103>>, <<"Batak", 7104, 7167>>,
      <<"Lepcha", 7168, 7247>>, <<"Ol_Chiki", 7248, 7295>>,
      <<"Cyrillic_Extended_C", 7296, 7311>>,
      <<"Georgian_Extended", 7312, 7359>>, <<"Vedic_Extensions", 7376, 7423>>,
      <<"Phonetic_Extensions", 7424, 7551>>,
      <<"Phonetic_Extensions_Sup", 7552, 7615>>,
      <<"Combining_Diacritics_Sup", 7616, 7679>>,
      <<"Latin_Extended_Additional", 7680, 7935>>,
      <<"Greek_Extended", 7936, 8191>>, <<"General_Punctuation", 8192, 8303>>,
      <<"Superscripts_Subscripts", 8304, 8351>>,
      <<"Currency_Symbols", 8352, 8399>>,
      <<"Combining_Diacritics_Sym", 8400, 8447>>,
      <<"Letterlike_Symbols", 8448, 8527>>, <<"Number_Forms", 8528, 8591>>,
      <<"Arrows", 8592, 8703>>, <<"Mathematical_Operators", 8704, 8959>>,
      <<"Misc_Technical", 8960, 9215>>, <<"Control_Pictures", 9216, 9279>>,
      <<"OCR", 9280, 9311>>, <<"Enclosed_Alphanumerics", 9312, 9471>>,
      <<"Box_Drawing", 9472, 9599>>, <<"Block_Elements", 9600, 9631>>,
      <<"Geometric_Shapes", 9632, 9727>>, <<"Misc_Symbols", 9728, 9983>>,
      <<"Dingbats", 9984, 10175>>, <<"Misc_Math_Symbols_A", 10176, 10223>>,
      <<"Supplemental_Arrows_A", 10224, 10239>>,
      <<"Braille_Patterns", 10240, 10495>>,
      <<"Supplemental_Arrows_B", 10496, 10623>>,
      <<"Misc_Math_Symbols_B", 10624, 10751>>,
      <<"Supplemental_Math_Op", 10752, 11007>>,
      <<"Misc_Symbols_Arrows", 11008, 11263>>, <<"Glagolitic", 11264, 11359>>,
      <<"Latin_Extended_C", 11360, 11391>>, <<"Coptic", 11392, 11519>>,
      <<"Georgian_Supplement", 11520, 11567>>, <<"Tifinagh", 11568, 11647>>,
      <<"Ethiopic_Extended", 11648, 11743>>,
      <<"Cyrillic_Extended_A", 11744, 11775>>,
      <<"Supplemental_Punctuation", 11776, 11903>>,
      <<"CJK_Radicals_Sup", 11904, 12031>>,
      <<"Kangxi_Radicals", 12032, 12255>>,
      <<"Ideographic_Description", 12272, 12287>>,
      <<"CJK_Symbols_Punctuation", 12288, 12351>>,
      <<"Hiragana", 12352, 12447>>, <<"Katakana", 12448, 12543>>,
      <<"Bopomofo", 12544, 12591>>, <<"Hangul_Compatibility", 12592, 12687>>,
      <<"Kanbun", 12688, 12703>>, <<"Bopomofo_Extended", 12704, 12735>>,
      <<"CJK_Strokes", 12736, 12783>>, <<"Katakana_Phonetic", 12784, 12799>>,
      <<"Enclosed_CJK", 12800, 13055>>, <<"CJK_Compatibility", 13056, 13311>>,
      <<"CJK_Extension_A", 13312, 19903>>,
      <<"Yijing_Hexagrams", 19904, 19967>>, <<"CJK_Unified", 19968, 40959>>,
      <<"Yi_Syllables", 40960, 42127>>, <<"Yi_Radicals", 42128, 42191>>,
      <<"Lisu", 42192, 42239>>, <<"Vai", 42240, 42559>>,
      <<"Cyrillic_Extended_B", 42560, 42655>>, <<"Bamum", 42656, 42751>>,
      <<"Modifier_Tone_Letters", 42752, 42783>>,
      <<"Latin_Extended_D", 42784, 43007>>, <<"Syloti_Nagri", 43008, 43055>>,
      <<"Indic_Number_Forms", 43056, 43071>>, <<"Phags_pa", 43072, 43135>>,
      <<"Saurashtra", 43136, 43231>>, <<"Devanagari_Extended", 43232, 43263>>,
      <<"Kayah_Li", 43264, 43311>>, <<"Rejang", 43312, 43359>>,
      <<"Hangul_Jamo_Extended_A", 43360, 43391>>, <<"Javanese", 43392, 43487>>,
      <<"Myanmar_Extended_B", 43488, 43519>>, <<"Cham", 43520, 43615>>,
      <<"Myanmar_Extended_A", 43616, 43647>>, <<"Tai_Viet", 43648, 43743>>,
      <<"Meetei_Mayek_Ext", 43744, 43775>>,
      <<"Ethiopic_Extended_A", 43776, 43823>>,
      <<"Latin_Extended_E", 43824, 43887>>,
      <<"Cherokee_Supplement", 43888, 43967>>,
      <<"Meetei_Mayek", 43968, 44031>>, <<"Hangul_Syllables", 44032, 55215>>,
      <<"Hangul_Jamo_Extended_B", 55216, 55295>>,
      <<"Private_Use_Area", 57344, 63743>>,
      <<"CJK_Compatibility_Ideographs", 63744, 64255>>,
      <<"Alphabetic_Presentation_Forms", 64256, 64335>>,
      <<"Arabic_Presentation_Forms_A", 64336, 65023>>,
      <<"Variation_Selectors", 65024, 65039>>,
      <<"Vertical_Forms", 65040, 65055>>,
      <<"Combining_Half_Marks", 65056, 65071>>,
      <<"CJK_Compatibility_Forms", 65072, 65103>>,
      <<"Small_Form_Variants", 65104, 65135>>,
      <<"Arabic_Presentation_Forms_B", 65136, 65279>>,
      <<"Halfwidth_Fullwidth", 65280, 65519>>, <<"Specials", 65520, 65535>>>>

\* FontExtractor.UNICODE_RANGES
UNICODE_RANGES ==
    <<<<"Basic_Latin", 0, 127>>, <<"Latin_1_Supplement", 128, 255>>,
      <<"Latin_Extended_A", 256, 383>>, <<"Latin_Extended_B", 384, 591>>,
      <<"IPA_Extensions", 592, 687>>, <<"Spacing_Modifier", 688, 767>>,
      <<"Combining_Diacritics", 768, 879>>, <<"Greek_Coptic", 880, 1023>>,
      <<"Cyrillic", 1024, 1279>>, <<"Cyrillic_Supplement", 1280, 1327>>,
      <<"Armenian", 1328, 1423>>, <<"Hebrew", 1424, 1535>>,
      <<"Arabic", 1536, 1791>>, <<"Syriac", 1792, 1871>>,
      <<"Arabic_Supplement", 1872, 1919>>, <<"Thaana", 1920, 1983>>,
      <<"NKo", 1984, 2047>>, <<"Samaritan", 2048, 2111>>,
      <<"Mandaic", 2112, 2143>>, <<"Arabic_Extended_B", 2160, 2207>>,
      <<"Arabic_Extended_A", 2208, 2303>>, <<"Devanagari", 2304, 2431>>,
      <<"Bengali", 2432, 2559>>, <<"Gurmukhi", 2560, 2687>>,
      <<"Gujarati", 2688, 2815>>, <<"Oriya", 2816, 2943>>,
      <<"Tamil", 2944, 3071>>, <<"Telugu", 3072, 3199>>,
      <<"Kannada", 3200, 3327>>, <<"Malayalam", 3328, 3455>>,
      <<"Sinhala", 3456, 3583>>, <<"Thai", 3584, 3711>>, <<"Lao", 3712, 3839>>,
      <<"Tibetan", 3840, 4095>>, <<"Myanmar", 4096, 4255>>,
      <<"Georgian", 4256, 4351>>, <<"Hangul_Jamo", 4352, 4607>>,
      <<"Ethiopic", 4608, 4991>>, <<"Ethiopic_Supplement", 4992, 5023>>,
      <<"Cherokee", 5024, 5119>>, <<"UCAS", 5120, 5759>>,
      <<"Ogham", 5760, 5791>>, <<"Runic", 5792, 5887>>,
      <<"Tagalog", 5888, 5919>>, <<"Hanunoo", 5920, 5951>>,
      <<"Buhid", 5952, 5983>>, <<"Tagbanwa", 5984, 6015>>,
      <<"Khmer", 6016, 6143>>, <<"Mongolian", 6144, 6319>>,
      <<"UCAS_Extended", 6320, 6399>>, <<"Limbu", 6400, 6479>>,
      <<"Tai_Le", 6480, 6527>>, <<"New_Tai_Lue", 6528, 6623>>,
      <<"Khmer_Symbols", 6624, 6655>>, <<"Buginese", 6656, 6687>>,
      <<"Tai_Tham", 6688, 6831>>, <<"Balinese", 6912, 7039>>,
      <<"Sundanese", 7040, 7103>>, <<"Batak", 7104, 7167>>,
      <<"Lepcha", 7168, 7247>>, <<"Ol_Chiki", 7248, 7295>>,
      <<"Cyrillic_Extended_C", 7296, 7311>>,
      <<"Georgian_Extended", 7312, 7359>>, <<"Vedic_Extensions", 7376, 7423>>,
      <<"Phonetic_Extensions", 7424, 7551>>,
      <<"Phonetic_Extensions_Sup", 7552, 7615>>,
      <<"Combining_Diacritics_Sup", 7616, 7679>>,
      <<"Latin_Extended_Additional", 7680, 7935>>,
      <<"Greek_Extended", 7936, 8191>>, <<"General_Punctuation", 8192, 8303>>,
      <<"Superscripts_Subscripts", 8304, 8351>>,
      <<"Currency_Symbols", 8352, 8399>>,
      <<"Combining_Diacritics_Sym", 8400, 8447>>,
      <<"Letterlike_Symbols", 8448, 8527>>, <<"Number_Forms", 8528, 8591>>,
      <<"Arrows", 8592, 8703>>, <<"Mathematical_Operators", 8704, 8959>>,
      <<"Misc_Technical", 8960, 9215>>, <<"Control_Pictures", 9216, 9279>>,
      <<"OCR", 9280, 9311>>, <<"Enclosed_Alphanumerics", 9312, 9471>>,
      <<"Box_Drawing", 9472, 9599>>, <<"Block_Elements", 9600, 9631>>,
      <<"Geometric_Shapes", 9632, 9727>>, <<"Misc_Symbols", 9728, 9983>>,
      <<"Dingbats", 9984, 10175>>, <<"Misc_Math_Symbols_A", 10176, 10223>>,
      <<"Supplemental_Arrows_A", 10224, 10239>>,
      <<"Braille_Patterns", 10240, 10495>>,
      <<"Supplemental_Arrows_B", 10496, 10623>>,
      <<"Misc_Math_Symbols_B", 10624, 10751>>,
      <<"Supplemental_Math_Op", 10752, 11007>>,
      <<"Misc_Symbols_Arrows", 11008, 11263>>, <<"Glagolitic", 11264, 11359>>,
      <<"Latin_Extended_C", 11360, 11391>>, <<"Coptic", 11392, 11519>>,
      <<"Georgian_Supplement", 11520, 11567>>, <<"Tifinagh", 11568, 11647>>,
      <<"Ethiopic_Extended", 11648, 11743>>,
      <<"Cyrillic_Extended_A", 11744, 11775>>,
      <<"Supplemental_Punctuation", 11776, 11903>>,
      <<"CJK_Radicals_Sup", 11904, 12031>>,
      <<"Kangxi_Radicals", 12032, 12255>>,
      <<"Ideographic_Description", 12272, 12287>>,
      <<"CJK_Symbols_Punctuation", 12288, 12351>>,
      <<"Hiragana", 12352, 12447>>, <<"Katakana", 12448, 12543>>,
      <<"Bopomofo", 12544, 12591>>, <<"Hangul_Compatibility", 12592, 12687>>,
      <<"Kanbun", 12688, 12703>>, <<"Bopomofo_Extended", 12704, 12735>>,
      <<"CJK_Strokes", 12736, 12783>>, <<"Katakana_Phonetic", 12784, 12799>>,
      <<"Enclosed_CJK", 12800, 13055>>, <<"CJK_Compatibility", 13056, 13311>>,
      <<"CJK_Extension_A", 13312, 19903>>,
      <<"Yijing_Hexagrams", 19904, 19967>>, <<"CJK_Unified", 19968, 40959>>,
      <<"Yi_Syllables", 40960, 42127>>, <<"Yi_Radicals", 42128, 42191>>,
      <<"Lisu", 42192, 42239>>, <<"Vai", 42240, 42559>>,
      <<"Cyrillic_Extended_B", 42560, 42655>>, <<"Bamum", 42656, 42751>>,
      <<"Modifier_Tone_Letters", 42752, 42783>>,
      <<"Latin_Extended_D", 42784, 43007>>, <<"Syloti_Nagri", 43008, 43055>>,
      <<"Indic_Number_Forms", 43056, 43071>>, <<"Phags_pa", 43072, 43135>>,
      <<"Saurashtra", 43136, 43231>>, <<"Devanagari_Extended", 43232, 43263>>,
      <<"Kayah_Li", 43264, 43311>>, <<"Rejang", 43312, 43359>>,
      <<"Hangul_Jamo_Extended_A", 43360, 43391>>, <<"Javanese", 43392, 43487>>,
      <<"Myanmar_Extended_B", 43488, 43519>>, <<"Cham", 43520, 43615>>,
      <<"Myanmar_Extended_A", 43616, 43647>>, <<"Tai_Viet", 43648, 43743>>,
      <<"Meetei_Mayek_Ext", 43744, 43775>>,
      <<"Ethiopic_Extended_A", 43776, 43823>>,
      <<"Latin_Extended_E", 43824, 43887>>,
      <<"Cherokee_Supplement", 43888, 43967>>,
      <<"Meetei_Mayek", 43968, 44031>>, <<"Hangul_Syllables", 44032, 55215>>,
      <<"Hangul_Jamo_Extended_B", 55216, 55295>>,
      <<"Private_Use_Area", 57344, 63743>>,
      <<"CJK_Compatibility_Ideographs", 63744, 64255>>,
      <<"Alphabetic_Presentation_Forms", 64256, 64335>>,
      <<"Arabic_Presentation_Forms_A", 64336, 65023>>,
      <<"Variation_Selectors", 65024, 65039>>,
      <<"Vertical_Forms", 65040, 65055>>,
      <<"Combining_Half_Marks", 65056, 65071>>,
      <<"CJK_Compatibility_Forms", 65072, 65103>>,
      <<"Small_Form_Variants", 65104, 65135>>,
      <<"Arabic_Presentation_Forms_B", 65136, 65279>>,
      <<"Halfwidth_Fullwidth", 65280, 65519>>, <<"Specials", 65520, 65535>>>>

\* hex(n) without its 0x, as digit values; int(s, 16) of such a string
RECURSIVE hex(_)
hex(n) == IF n < 16 THEN <<n>> ELSE hex(n \div 16) \o <<n % 16>>
RECURSIVE int16(_)
int16(ds) == IF ds = <<>> THEN 0 ELSE int16(SubSeq(ds, 1, Len(ds) - 1)) * 16 + ds[Len(ds)]

\* f"{name}:{hex(start)}:{hex(end)}", as its three parts
range_arg(r) == <<r[1], hex(r[2]), hex(r[3])>>
\* (name, int(start, 16), int(end, 16))
parse_range(parts) == <<parts[1], int16(parts[2]), int16(parts[3])>>

\* The batch driver begins to build its command line; or the extractor is
\* run by hand without any --range.
CatInit ==
    /\ \/ pc = "building"
       \/ pc = "parsing"
    /\ ranges_args = <<>>
    /\ cli_ranges = <<>>
    /\ extractor_ranges = UNICODE_RANGES
    /\ IdleExceptCat

\* for name, start, end in UNICODE_RANGES: ranges_args.extend(...)
AppendRangeArg ==
    /\ pc = "building"
    /\ Len(ranges_args) < Len(BATCH_UNICODE_RANGES)
    /\ ranges_args' = Append(ranges_args, range_arg(BATCH_UNICODE_RANGES[Len(ranges_args) + 1]))
    /\ UNCHANGED <<pc, cli_ranges, extractor_ranges, exceptCat>>

\* subprocess.run(cmd): the extractor starts with these arguments.
RunExtractor ==
    /\ pc = "building"
    /\ Len(ranges_args) = Len(BATCH_UNICODE_RANGES)
    /\ pc' = "parsing"
    /\ UNCHANGED <<ranges_args, cli_ranges, extractor_ranges, exceptCat>>

\* for r in args.ranges: unicode_ranges.append(...)
ParseRange ==
    /\ pc = "parsing"
    /\ Len(cli_ranges) < Len(ranges_args)
    /\ cli_ranges' = Append(cli_ranges, parse_range(ranges_args[Len(cli_ranges) + 1]))
    /\ UNCHANGED <<pc, ranges_args, extractor_ranges, exceptCat>>

\* FontExtractor.__init__: if unicode_ranges: self.UNICODE_RANGES = unicode_ranges
ConstructExtractor ==
    /\ pc = "parsing"
    /\ Len(cli_ranges) = Len(ranges_args)
    /\ pc' = "constructed"
    /\ extractor_ranges' = IF cli_ranges # <<>> THEN cli_ranges ELSE extractor_ranges
    /\ UNCHANGED <<ranges_args, cli_ranges, exceptCat>>

CatNext == AppendRangeArg \/ RunExtractor \/ ParseRange \/ ConstructExtractor
SpecCatalogue == CatInit /\ [][CatNext]_vars

\* The ranges that hold a code point
RangesOf(rs, cp) == {k \in 1..Len(rs) : rs[k][2] <= cp /\ cp <= rs[k][3]}

\* The extractor's ranges, by hand or through the batch driver, are its
\* default catalogue, and no two of them share a code point.
CatalogueIdenticalAndDisjoint ==
    pc = "constructed" =>
        /\ extractor_ranges = UNICODE_RANGES
        /\ \A i, j \in 1..Len(extractor_ranges) :
               i < j => \/ extractor_ranges[i][3] < extractor_ranges[j][2]
                        \/ extractor_ranges[j][3] < extractor_ranges[i][2]

\* C22 as stated: the catalogue the extractor works with, its default or the
\* batch driver's, is the same list, and every code point of 0x0000..0xFFFF
\* belongs to exactly one of its ranges.
C22_AsStated ==
    pc = "constructed" =>
        /\ extractor_ranges = UNICODE_RANGES
        /\ \A cp \in 0..65535 : Cardinality(RangesOf(extractor_ranges, cp)) = 1

=============================================================================
